---- MODULE Spec2Model ----
(***************************************************************************)
(* Skill matching, job aggregation and recommendation ranking of the       *)
(* career platform (job_matcher.py, job_search_api.py).                    *)
(*                                                                         *)
(* Text is a sequence of one-character strings, so that lower(), strip()   *)
(* and the "in" substring test are computed and not assumed.               *)
(* match_percentage is kept in tenths of a percent (66.7 is 667).          *)
(***************************************************************************)
EXTENDS Integers, Sequences, FiniteSets, TLC

VARIABLES
    m_pc,          \* calculate_skill_match: "call" before, "done" after
    m_resume,      \* argument resume_skills
    m_job,         \* argument job_skills
    m_result,      \* the returned dict
    s_pc,          \* JobSearchAPI.search_jobs: "call", "collect", "done"
    s_configured,  \* the providers with is_configured, in self.providers
    s_nkeys,       \* len(api_keys) of JobSearchGlobalProvider
    s_keywords,    \* argument keywords
    s_max_results, \* argument max_results
    s_future,      \* per provider: "none", "running", "done", "collected"
    s_exchange,    \* per provider: the HTTP exchange its worker got
    s_returned,    \* per provider: what its future holds, [raised, jobs]
    g_log,         \* JobSearchGlobalProvider: per credential tried, the exchanges and the result
    s_order,       \* the providers in the order as_completed handed them over
    s_all_jobs,    \* all_jobs
    s_result,      \* the returned list
    s_exit,        \* which return was taken: "unconfigured", "fallback", "live"
    r_pc,          \* rank_jobs: "call", "search" (inside search_jobs), "done"
    r_analysis,    \* what get_latest_analysis returns: [present, technical_skills, soft_skills]
    r_limit,       \* argument limit
    db_jobs,       \* the rows of table jobs, in the order get_all_jobs returns them
    db_recs,       \* the rows of table recommendations of the user
    r_matches,     \* job_matches before it is sorted
    r_top,         \* the returned list
    a_pc,          \* ResumeAnalyzer.analyze: the statement it is at
    a_text,        \* original_text
    a_configured,  \* ai_analyzer.is_configured
    a_tech,        \* technical_skills
    a_soft,        \* soft_skills
    a_summary,     \* summary
    a_strengths,   \* strengths
    a_weaknesses,  \* weaknesses
    a_score,       \* score
    a_missing,     \* missing_skills
    a_suggestions, \* suggestions
    a_calls,       \* the calls made to the collaborator, with what each came back with
    a_first,       \* the analysis an earlier call of analyze returned for the same text
    p_pc,          \* extract_resume_details_fallback: "call" before, "done" after
    p_text,        \* argument resume_text
    p_shape,       \* the sections and entries the document in p_text was written with
    p_result,      \* the returned dict
    t_pc,          \* save_recommendations: the statement its connection is at
    t_new,         \* argument recommendations
    t_old,         \* the committed rows when save_recommendations was called
    t_work,        \* the rows as the writer's open transaction sees them
    t_next,        \* index of the next row the loop inserts
    rd_limit,      \* argument limit of get_recommendations
    rd_result,     \* what get_recommendations returned, None before it ran
    u_pc,          \* show_upload_page: "page" between two uploads, "saved" after save_resume
    u_user,        \* user['id'] of the session whose upload is being handled
    u_file,        \* the file of the upload handled last
    u_report,      \* what that upload came back with: [raised, ok, message]
    u_resume_id,   \* resume_id, the row save_resume wrote
    u_resumes,     \* the rows of table resumes
    u_analysis,    \* the rows of table analysis
    u_clock,       \* CURRENT_TIMESTAMP of the database, in seconds
    u_latest       \* what get_latest_analysis returned last, with the user it was asked for

m_vars == <<m_pc, m_resume, m_job, m_result>>

s_vars == <<s_pc, s_configured, s_nkeys, s_keywords, s_max_results, s_future,
            s_exchange, s_returned, g_log, s_order, s_all_jobs, s_result, s_exit>>

r_vars == <<r_pc, r_analysis, r_limit, db_jobs, db_recs, r_matches, r_top>>

a_vars == <<a_pc, a_text, a_configured, a_tech, a_soft, a_summary, a_strengths,
            a_weaknesses, a_score, a_missing, a_suggestions, a_calls, a_first>>

p_vars == <<p_pc, p_text, p_shape, p_result>>

t_vars == <<t_pc, t_new, t_old, t_work, t_next, rd_limit, rd_result>>

u_vars == <<u_pc, u_user, u_file, u_report, u_resume_id, u_resumes, u_analysis, u_clock,
            u_latest>>

x_vars == <<a_vars, p_vars, t_vars, u_vars>>

vars == <<m_vars, s_vars, r_vars, x_vars>>

None == "None"

Range(s) == {s[i] : i \in DOMAIN s}

Min(a, b) == IF a < b THEN a ELSE b

Max(a, b) == IF a > b THEN a ELSE b

-----------------------------------------------------------------------------
(* Characters and strings *)

\* the characters used by the inputs, in code-point order
Alphabet ==
    <<"\n", " ", "!", "#", "$", "%", "&", "'", "(", ")", "*", "+", ",", "-", ".", "/",
      "0", "1", "2", "3", "4", "5", "6", "7", "8", "9", ":", ";", "=", "?", "@",
      "A", "B", "C", "D", "E", "F", "G", "H", "I", "J", "K", "L", "M",
      "N", "O", "P", "Q", "R", "S", "T", "U", "V", "W", "X", "Y", "Z", "_",
      "a", "b", "c", "d", "e", "f", "g", "h", "i", "j", "k", "l", "m",
      "n", "o", "p", "q", "r", "s", "t", "u", "v", "w", "x", "y", "z", "|">>

Ord == [c \in Range(Alphabet) |-> CHOOSE i \in DOMAIN Alphabet : Alphabet[i] = c]

UpperToLower ==
    [c \in {Alphabet[i] : i \in Ord["A"]..Ord["Z"]} |-> Alphabet[Ord[c] + (Ord["a"] - Ord["A"])]]

Whitespace == {" ", "\n"}

\* str.lower()
lower(s) ==
    [i \in 1..Len(s) |-> IF s[i] \in DOMAIN UpperToLower THEN UpperToLower[s[i]] ELSE s[i]]

\* str.strip()
strip(s) ==
    LET keep == {i \in 1..Len(s) : s[i] \notin Whitespace}
    IN  IF keep = {} THEN <<>>
        ELSE LET first == CHOOSE i \in keep : \A j \in keep : i <= j
                 last  == CHOOSE i \in keep : \A j \in keep : i >= j
             IN  SubSeq(s, first, last)

\* a < b for str: lexicographic by code point
StrLess(a, b) ==
    \E k \in 1..(Min(Len(a), Len(b)) + 1) :
        /\ \A i \in 1..(k - 1) : a[i] = b[i]
        /\ \/ k = Len(a) + 1 /\ k <= Len(b)
           \/ k <= Len(a) /\ k <= Len(b) /\ Ord[a[k]] < Ord[b[k]]

RECURSIVE sorted(_)
\* sorted(list(S)) for a set of str
sorted(S) ==
    IF S = {} THEN <<>>
    ELSE LET least == CHOOSE x \in S : \A y \in S \ {x} : StrLess(x, y)
         IN  <<least>> \o sorted(S \ {least})

RECURSIVE SetToSeq(_)
\* list(S) for a set of str whose order is not read
SetToSeq(S) ==
    IF S = {} THEN <<>>
    ELSE LET least == CHOOSE x \in S : \A y \in S \ {x} : StrLess(x, y)
         IN  <<least>> \o SetToSeq(S \ {least})

\* round(num / den) to the nearest integer, ties to even (Python 3 round)
round(num, den) ==
    LET q == num \div den
        r == num % den
    IN  IF 2 * r > den \/ (2 * r = den /\ q % 2 = 1) THEN q + 1 ELSE q

-----------------------------------------------------------------------------
(* job_matcher.py: the match scorer *)

normalize_skill(skill) == strip(lower(skill))

skill_synonyms ==
    (<<"j","a","v","a","s","c","r","i","p","t">> :> {<<"j","s">>, <<"e","c","m","a","s","c","r","i","p","t">>}) @@
    (<<"t","y","p","e","s","c","r","i","p","t">> :> {<<"t","s">>}) @@
    (<<"n","o","d","e","j","s">> :> {<<"n","o","d","e",".","j","s">>, <<"n","o","d","e">>}) @@
    (<<"r","e","a","c","t","j","s">> :> {<<"r","e","a","c","t">>, <<"r","e","a","c","t",".","j","s">>}) @@
    (<<"v","u","e","j","s">> :> {<<"v","u","e">>, <<"v","u","e",".","j","s">>}) @@
    (<<"p","y","t","h","o","n">> :> {<<"p","y">>}) @@
    (<<"d","o","c","k","e","r">> :> {<<"c","o","n","t","a","i","n","e","r","i","z","a","t","i","o","n">>}) @@
    (<<"k","u","b","e","r","n","e","t","e","s">> :> {<<"k","8","s">>}) @@
    (<<"a","m","a","z","o","n"," ","w","e","b"," ","s","e","r","v","i","c","e","s">> :> {<<"a","w","s">>}) @@
    (<<"g","o","o","g","l","e"," ","c","l","o","u","d"," ","p","l","a","t","f","o","r","m">> :> {<<"g","c","p">>, <<"g","o","o","g","l","e"," ","c","l","o","u","d">>}) @@
    (<<"m","i","c","r","o","s","o","f","t"," ","a","z","u","r","e">> :> {<<"a","z","u","r","e">>}) @@
    (<<"s","q","l">> :> {<<"m","y","s","q","l">>, <<"p","o","s","t","g","r","e","s","q","l">>, <<"s","q","l"," ","s","e","r","v","e","r">>}) @@
    (<<"n","o","s","q","l">> :> {<<"m","o","n","g","o","d","b">>, <<"c","a","s","s","a","n","d","r","a">>, <<"d","y","n","a","m","o","d","b">>})

related_skills ==
    (<<"r","e","a","c","t">> :> {<<"j","a","v","a","s","c","r","i","p","t">>, <<"t","y","p","e","s","c","r","i","p","t">>, <<"h","t","m","l">>, <<"c","s","s">>}) @@
    (<<"a","n","g","u","l","a","r">> :> {<<"j","a","v","a","s","c","r","i","p","t">>, <<"t","y","p","e","s","c","r","i","p","t">>, <<"h","t","m","l">>, <<"c","s","s">>}) @@
    (<<"v","u","e">> :> {<<"j","a","v","a","s","c","r","i","p","t">>, <<"t","y","p","e","s","c","r","i","p","t">>, <<"h","t","m","l">>, <<"c","s","s">>}) @@
    (<<"d","j","a","n","g","o">> :> {<<"p","y","t","h","o","n">>}) @@
    (<<"f","l","a","s","k">> :> {<<"p","y","t","h","o","n">>}) @@
    (<<"s","p","r","i","n","g">> :> {<<"j","a","v","a">>}) @@
    (<<"e","x","p","r","e","s","s">> :> {<<"n","o","d","e","j","s">>, <<"j","a","v","a","s","c","r","i","p","t">>}) @@
    (<<"d","o","c","k","e","r">> :> {<<"l","i","n","u","x">>, <<"d","e","v","o","p","s">>}) @@
    (<<"k","u","b","e","r","n","e","t","e","s">> :> {<<"d","o","c","k","e","r">>, <<"l","i","n","u","x">>, <<"d","e","v","o","p","s">>}) @@
    (<<"a","w","s">> :> {<<"c","l","o","u","d">>, <<"d","e","v","o","p","s">>}) @@
    (<<"a","z","u","r","e">> :> {<<"c","l","o","u","d">>, <<"d","e","v","o","p","s">>}) @@
    (<<"g","c","p">> :> {<<"c","l","o","u","d">>, <<"d","e","v","o","p","s">>})

\* the loop of lines 59-69
DirectMatches(resume_skills_set, job_skills_set) ==
    {job_skill \in job_skills_set :
        \/ job_skill \in resume_skills_set
        \/ \E key \in DOMAIN skill_synonyms :
              /\ job_skill \in skill_synonyms[key] \/ job_skill = key
              /\ key \in resume_skills_set
                 \/ resume_skills_set \cap skill_synonyms[key] # {}}

\* variant: the related test made on every required skill, the direct matches included
RelatedMatches_AllRequired(resume_skills_set, job_skills_set, direct_matches) ==
    {job_skill \in job_skills_set :
        \E key \in DOMAIN related_skills :
            job_skill = key /\ resume_skills_set \cap related_skills[key] # {}}

\* the loop of lines 72-77
RelatedMatches(resume_skills_set, job_skills_set, direct_matches) ==
    {job_skill \in job_skills_set \ direct_matches :
        \E key \in DOMAIN related_skills :
            job_skill = key /\ resume_skills_set \cap related_skills[key] # {}}

\* variant: the lower industry credit given to the candidate who shares a skill
IndustryScore_Swapped(resume_skills_set, job_skills_set, direct_matches) ==
    IF resume_skills_set \cap job_skills_set # {} THEN 50 ELSE 100

\* variant: the industry credit decided by the direct matches (synonyms included)
IndustryScore_FromDirect(resume_skills_set, job_skills_set, direct_matches) ==
    IF direct_matches # {} THEN 100 ELSE 50

\* industry_score in thousandths: 0.1 or 0.05
IndustryScore(resume_skills_set, job_skills_set, direct_matches) ==
    IF resume_skills_set \cap job_skills_set # {} THEN 100 ELSE 50

\* variant: the flat credits given to an empty required list too
MatchPercentage_FlatOnEmpty(resume_skills_set, job_skills_set, direct_matches, related_matches) ==
    IF job_skills_set = {} THEN 150
    ELSE LET n == Cardinality(job_skills_set)
         IN  Min(round(Cardinality(direct_matches) * 600 + Cardinality(related_matches) * 200
                       + (100 + IndustryScore(resume_skills_set, job_skills_set, direct_matches)) * n,
                       n),
                 1000)

\* variant: the experience credit of 0.3
MatchPercentage_HighExperience(resume_skills_set, job_skills_set, direct_matches, related_matches) ==
    IF job_skills_set = {} THEN 0
    ELSE LET n == Cardinality(job_skills_set)
         IN  Min(round(Cardinality(direct_matches) * 600 + Cardinality(related_matches) * 200
                       + (300 + IndustryScore(resume_skills_set, job_skills_set, direct_matches)) * n,
                       n),
                 1000)

\* variant: the flat experience credit left out
MatchPercentage_NoExperience(resume_skills_set, job_skills_set, direct_matches, related_matches) ==
    IF job_skills_set = {} THEN 0
    ELSE LET n == Cardinality(job_skills_set)
         IN  Min(round(Cardinality(direct_matches) * 600 + Cardinality(related_matches) * 200
                       + IndustryScore(resume_skills_set, job_skills_set, direct_matches) * n, n),
                 1000)

\* lines 80-92 and the rounding of line 95; the fractions direct_score and
\* related_score are kept over the common denominator len(job_skills_set),
\* the result is in tenths of a percent
MatchPercentage(resume_skills_set, job_skills_set, direct_matches, related_matches) ==
    IF job_skills_set = {} THEN 0
    ELSE LET n                == Cardinality(job_skills_set)
             direct_score     == Cardinality(direct_matches) * 600
             related_score    == Cardinality(related_matches) * 200
             experience_score == 100
             industry_score   == IndustryScore(resume_skills_set, job_skills_set, direct_matches)
         IN  Min(round(direct_score + related_score
                       + (experience_score + industry_score) * n, n), 1000)

calculate_skill_match(resume_skills, job_skills) ==
    LET resume_skills_set == {normalize_skill(s) : s \in Range(resume_skills)}
        job_skills_set    == {normalize_skill(s) : s \in Range(job_skills)}
        direct_matches    == DirectMatches(resume_skills_set, job_skills_set)
        related_matches   == RelatedMatches(resume_skills_set, job_skills_set, direct_matches)
    IN  [match_percentage |-> MatchPercentage(resume_skills_set, job_skills_set,
                                              direct_matches, related_matches),
         direct_matches   |-> sorted(direct_matches),
         related_matches  |-> sorted(related_matches),
         total_required   |-> Cardinality(job_skills_set),
         total_matched    |-> Cardinality(direct_matches) + Cardinality(related_matches)]

-----------------------------------------------------------------------------
(* job_search_api.py: provider records and their normalisation.             *)
(* A provider record (a JSON object) is a function from its keys to values; *)
(* a nested value company.name is kept under the key "company.name".  A     *)
(* date string is [kind, day]: kind "iso" parses to the day number `day`,   *)
(* kind "text" does not parse, kind "empty" is the empty string.  A         *)
(* normalised posting keeps the fields read after normalisation: title,     *)
(* company, description, url, posted_date, days_ago, easy_apply.            *)

\* needle in hay (str.__contains__)
Contains(hay, needle) ==
    \E i \in 0..(Len(hay) - Len(needle)) :
        \A j \in 1..Len(needle) : hay[i + j] = needle[j]

\* the day datetime.now() falls on
Today == 20

NowIso == [kind |-> "iso", day |-> Today]

EmptyDate == [kind |-> "empty", day |-> 0]

_calculate_days_ago(date_str) ==
    IF date_str.kind = "empty" THEN 0
    ELSE IF date_str.kind = "iso" THEN Max(0, Today - date_str.day)
    ELSE 0

RECURSIVE FirstStr(_, _, _)
\* job.get(k1) or job.get(k2) or ... or default, for string values
FirstStr(job, keys, default) ==
    IF keys = <<>> THEN default
    ELSE IF Head(keys) \in DOMAIN job /\ job[Head(keys)] # <<>> THEN job[Head(keys)]
    ELSE FirstStr(job, Tail(keys), default)

RECURSIVE FirstDate(_, _, _)
\* job.get(k1) or job.get(k2) or ... or default, for date strings
FirstDate(job, keys, default) ==
    IF keys = <<>> THEN default
    ELSE IF Head(keys) \in DOMAIN job /\ job[Head(keys)].kind # "empty" THEN job[Head(keys)]
    ELSE FirstDate(job, Tail(keys), default)

\* job.get(k, default)
Get(job, k, default) == IF k \in DOMAIN job THEN job[k] ELSE default

\* AdzunaJobSearch._parse_job
AdzunaParseJob(result) ==
    [title       |-> Get(result, "title", <<"N","/","A">>),
     company     |-> Get(result, "company.display_name", <<"N","/","A">>),
     description |-> Get(result, "description", <<>>),
     url         |-> Get(result, "redirect_url", <<"#">>),
     posted_date |-> Get(result, "created", EmptyDate),
     days_ago    |-> _calculate_days_ago(Get(result, "created", EmptyDate)),
     easy_apply  |-> FALSE]

\* JobSearchGlobalProvider._parse_job
GlobalParseJob(job) ==
    LET title   == FirstStr(job, <<"title", "job_title", "jobTitle">>, <<"N","/","A">>)
        company == IF "company" \in DOMAIN job THEN job["company"]
                   ELSE IF "company_name" \in DOMAIN job THEN job["company_name"]
                   ELSE IF "company.name" \in DOMAIN job THEN job["company.name"]
                   ELSE <<"N","/","A">>
        url0    == FirstStr(job, <<"url", "job_url", "link">>, <<"#">>)
        url     == IF url0 = <<"#">> /\ "slug" \in DOMAIN job
                   THEN <<"h","t","t","p","s",":","/","/","w","w","w",".","g","o","o","g","l","e",".","c","o","m","/","s","e","a","r","c","h","?","q","=">> \o title \o <<"+">> \o company
                   ELSE url0
        date_str == FirstDate(job, <<"date", "posted_date", "date_posted">>, NowIso)
    IN  [title       |-> title,
         company     |-> company,
         description |-> FirstStr(job, <<"description", "summary">>, title),
         url         |-> url,
         posted_date |-> date_str,
         days_ago    |-> _calculate_days_ago(date_str),
         easy_apply  |-> FALSE]

\* variant: a record without a url keeps an empty url
ActiveParseJob_NoPlaceholder(job) ==
    LET title    == FirstStr(job, <<"title", "job_title">>, <<"N","/","A">>)
        date_str == FirstDate(job, <<"date_posted", "posted_date", "date">>, NowIso)
    IN  [title       |-> title,
         company     |-> FirstStr(job, <<"company", "organization", "company_name">>, <<"N","/","A">>),
         description |-> FirstStr(job, <<"description", "summary">>, title),
         url         |-> FirstStr(job, <<"url", "job_url", "apply_url", "link">>, <<>>),
         posted_date |-> date_str,
         days_ago    |-> _calculate_days_ago(date_str),
         easy_apply  |-> FALSE]

\* ActiveJobsDBProvider._parse_job
ActiveParseJob(job) ==
    LET title    == FirstStr(job, <<"title", "job_title">>, <<"N","/","A">>)
        url      == FirstStr(job, <<"url", "job_url", "apply_url", "link">>, <<"#">>)
        date_str == FirstDate(job, <<"date_posted", "posted_date", "date">>, NowIso)
        desc0    == FirstStr(job, <<"description", "summary">>, title)
    IN  [title       |-> title,
         company     |-> FirstStr(job, <<"company", "organization", "company_name">>, <<"N","/","A">>),
         description |-> IF Len(desc0) > 600 THEN SubSeq(desc0, 1, 597) \o <<".",".",".">> ELSE desc0,
         url         |-> url,
         posted_date |-> date_str,
         days_ago    |-> _calculate_days_ago(date_str),
         easy_apply  |-> FALSE]

\* seq[:n]
Take(seq, n) == SubSeq(seq, 1, Min(n, Len(seq)))

\* An HTTP exchange: kind "timeout" (requests raises) or "http" with a status
\* and a body; a body is [type, items, message] with type "list" (a JSON
\* array), "data", "jobs", "results" (an object holding the array under that
\* key), "message" (an object holding only a message) or "invalid" (no JSON).
\* AdzunaJobSearch.search_jobs, given the exchange it gets
AdzunaSearchJobs(resp, keywords, max_results) ==
    IF resp.kind = "timeout" THEN <<>>
    ELSE IF resp.status # 200 THEN <<>>
    ELSE IF resp.body.type = "invalid" THEN <<>>
    ELSE IF resp.body.type = "results"
         THEN [i \in 1..Len(resp.body.items) |-> AdzunaParseJob(resp.body.items[i])]
    ELSE <<>>

\* the client-side keyword filter of ActiveJobsDBProvider.search_jobs
KeywordMatch(job, keywords) ==
    LET title == lower(FirstStr(job, <<"title">>, <<>>))
        desc  == lower(FirstStr(job, <<"description">>, <<>>))
    IN  \E i \in DOMAIN keywords :
            Contains(title, lower(keywords[i])) \/ Contains(desc, lower(keywords[i]))

\* ActiveJobsDBProvider.search_jobs, given the exchange it gets
ActiveSearchJobs(resp, keywords, max_results) ==
    IF resp.kind = "timeout" THEN <<>>
    ELSE IF resp.status # 200 THEN <<>>
    ELSE IF resp.body.type = "invalid" THEN <<>>
    ELSE LET raw_jobs == IF resp.body.type \in {"list", "data", "jobs"}
                         THEN resp.body.items ELSE <<>>
             filtered == SelectSeq(raw_jobs, LAMBDA j : KeywordMatch(j, keywords))
             results  == IF filtered # <<>> THEN filtered ELSE raw_jobs
             kept     == Take(results, max_results)
         IN  [i \in 1..Len(kept) |-> ActiveParseJob(kept[i])]

\* JobSearchGlobalProvider._process_response
GlobalProcessResponse(body, max_results) ==
    LET results == IF body.type \in {"list", "data", "jobs"} THEN body.items ELSE <<>>
    IN  Take([i \in 1..Len(results) |-> GlobalParseJob(results[i])], max_results)

\* JobSearchGlobalProvider._search_with_key, given the exchange of search.php
\* and the exchange of latest_jobs.php (made only when search.php gave nothing
\* usable): [raised, jobs]
SearchWithKey(search, latest, max_results) ==
    IF /\ search.kind = "http" /\ search.status = 200
       /\ search.body.type \in {"list", "data", "jobs"}
    THEN [raised |-> FALSE, jobs |-> GlobalProcessResponse(search.body, max_results)]
    ELSE IF latest.kind = "timeout" THEN [raised |-> TRUE, jobs |-> <<>>]
    ELSE IF latest.status # 200 THEN [raised |-> TRUE, jobs |-> <<>>]
    ELSE IF latest.body.type = "invalid" THEN [raised |-> TRUE, jobs |-> <<>>]
    ELSE IF latest.body.type = "message" /\ Contains(lower(latest.body.message), <<"e","x","c","e","e","d","e","d">>)
         THEN [raised |-> TRUE, jobs |-> <<>>]
    ELSE [raised |-> FALSE, jobs |-> GlobalProcessResponse(latest.body, max_results)]

\* search.php gave a usable answer, so latest_jobs.php is not called
SearchAnswers(search) ==
    /\ search.kind = "http" /\ search.status = 200
    /\ search.body.type \in {"list", "data", "jobs"}

\* variant: any result that was returned is taken, an empty one too
KeyAccepted_AnyReturn(result) == ~result.raised

\* the test of line 139: the credential's result is taken
KeyAccepted(result) == ~result.raised /\ result.jobs # <<>>

-----------------------------------------------------------------------------
(* job_search_api.py: JobSearchAPI, the composite search *)

\* tuple comparison a < b of two keys of equal length
KeyLess(a, b) ==
    \E k \in 1..Len(a) :
        /\ \A i \in 1..(k - 1) : a[i] = b[i]
        /\ a[k] < b[k]

RECURSIVE SortedIndices(_, _)
\* the indices in `rest` in the order list.sort(key=...) leaves them in: by
\* key, equal keys in their original order (the sort is stable)
SortedIndices(keys, rest) ==
    IF rest = {} THEN <<>>
    ELSE LET first == CHOOSE i \in rest :
                          \A j \in rest \ {i} :
                              KeyLess(keys[i], keys[j]) \/ (keys[i] = keys[j] /\ i < j)
         IN  <<first>> \o SortedIndices(keys, rest \ {first})

\* list.sort(key=...) where keys[i] is the key of items[i]
SortByKeys(items, keys) ==
    LET order == SortedIndices(keys, DOMAIN items)
    IN  [i \in 1..Len(items) |-> items[order[i]]]

\* variant: no deduplication
Deduplicate_None(all_jobs) == all_jobs

\* line 417-418: list({job['url']: job for job in all_jobs}.values()); a dict
\* keeps a key at the place of its first insertion and the value of its last
Deduplicate(all_jobs) ==
    LET firsts == {i \in DOMAIN all_jobs : \A j \in 1..(i - 1) : all_jobs[j].url # all_jobs[i].url}
        lastOf(i) == CHOOSE j \in DOMAIN all_jobs :
                        /\ all_jobs[j].url = all_jobs[i].url
                        /\ \A k \in DOMAIN all_jobs : all_jobs[k].url = all_jobs[i].url => k <= j
        order == SortedIndices([i \in DOMAIN all_jobs |-> <<i>>], firsts)
    IN  [n \in 1..Len(order) |-> all_jobs[lastOf(order[n])]]

\* line 419: final_jobs.sort(key=lambda x: x.get('days_ago', 999))
SortByDaysAgo(final_jobs) ==
    SortByKeys(final_jobs,
               [i \in DOMAIN final_jobs |->
                   <<IF "days_ago" \in DOMAIN final_jobs[i] THEN final_jobs[i].days_ago ELSE 999>>])

\* requests.utils.quote: letters, digits and "-", ".", "/" are kept
Quote(s) ==
    LET enc(c) == IF c = " " THEN <<"%","2","0">>
                  ELSE IF c = "#" THEN <<"%","2","3">>
                  ELSE IF c = "+" THEN <<"%","2","B">>
                  ELSE IF c = "!" THEN <<"%","2","1">>
                  ELSE IF c = "$" THEN <<"%","2","4">>
                  ELSE IF c = "%" THEN <<"%","2","5">>
                  ELSE IF c = "&" THEN <<"%","2","6">>
                  ELSE IF c = "," THEN <<"%","2","C">>
                  ELSE IF c = ":" THEN <<"%","3","A">>
                  ELSE IF c = "=" THEN <<"%","3","D">>
                  ELSE IF c = "?" THEN <<"%","3","F">>
                  ELSE <<c>>
        F[i \in 0..Len(s)] == IF i = 0 THEN <<>> ELSE F[i - 1] \o enc(s[i])
    IN  F[Len(s)]

\* JobSearchAPI._get_mock_jobs
_get_mock_jobs(keywords) ==
    LET keyword_str     == IF keywords # <<>> THEN keywords[1] ELSE <<"S","o","f","t","w","a","r","e">>
        encoded_keyword == Quote(keyword_str)
    IN  <<[title       |-> <<"S","e","n","i","o","r"," ">> \o keyword_str \o <<" ","E","n","g","i","n","e","e","r">>,
           company     |-> <<"T","e","c","h","C","o","r","p"," ","S","o","l","u","t","i","o","n","s">>,
           description |-> <<"L","o","o","k","i","n","g"," ","f","o","r"," ","a","n"," ","e","x","p","e","r","i","e","n","c","e","d"," ">> \o keyword_str
                           \o <<" ","e","n","g","i","n","e","e","r"," ","t","o"," ","j","o","i","n"," ","o","u","r"," ","t","e","a","m","."," ","E","a","s","y"," ","A","p","p","l","y"," ","a","v","a","i","l","a","b","l","e","!">>,
           url         |-> <<"h","t","t","p","s",":","/","/","w","w","w",".","l","i","n","k","e","d","i","n",".","c","o","m","/","j","o","b","s","/","s","e","a","r","c","h","/","?","k","e","y","w","o","r","d","s","=">> \o encoded_keyword,
           posted_date |-> NowIso,
           days_ago    |-> 2,
           easy_apply  |-> TRUE],
          [title       |-> keyword_str \o <<" ","D","e","v","e","l","o","p","e","r">>,
           company     |-> <<"I","n","n","o","v","a","t","i","o","n"," ","L","a","b","s">>,
           description |-> <<"J","o","i","n"," ","o","u","r"," ","t","e","a","m"," ","a","s"," ","a"," ">> \o keyword_str
                           \o <<" ","d","e","v","e","l","o","p","e","r"," ","w","o","r","k","i","n","g"," ","o","n"," ","c","u","t","t","i","n","g","-","e","d","g","e"," ","p","r","o","j","e","c","t","s",".",".",".">>,
           url         |-> <<"h","t","t","p","s",":","/","/","w","w","w",".","i","n","d","e","e","d",".","c","o","m","/","j","o","b","s","?","q","=">> \o encoded_keyword,
           posted_date |-> NowIso,
           days_ago    |-> 5,
           easy_apply  |-> FALSE],
          [title       |-> <<"J","u","n","i","o","r"," ">> \o keyword_str \o <<" ","E","n","g","i","n","e","e","r">>,
           company     |-> <<"S","t","a","r","t","u","p","X","Y","Z">>,
           description |-> <<"E","n","t","r","y","-","l","e","v","e","l"," ">> \o keyword_str
                           \o <<" ","p","o","s","i","t","i","o","n"," ","w","i","t","h"," ","g","r","o","w","t","h"," ","o","p","p","o","r","t","u","n","i","t","i","e","s","."," ","Q","u","i","c","k"," ","A","p","p","l","y"," ","n","o","w","!">>,
           url         |-> <<"h","t","t","p","s",":","/","/","w","w","w",".","g","l","a","s","s","d","o","o","r",".","c","o","m","/","J","o","b","/","j","o","b","s",".","h","t","m","?","s","c",".","k","e","y","w","o","r","d","=">> \o encoded_keyword,
           posted_date |-> [kind |-> "iso", day |-> Today - 1],
           days_ago    |-> 1,
           easy_apply  |-> TRUE]>>

\* variant: extend replaced by assignment
CollectFuture_Overwrite(all_jobs, future) ==
    IF future.raised THEN all_jobs ELSE future.jobs

\* lines 410-414: the result of one completed future is added to all_jobs
CollectFuture(all_jobs, future) ==
    IF future.raised THEN all_jobs ELSE all_jobs \o future.jobs

\* variant: no placeholder postings
FinalJobs_NoFallback(all_jobs, keywords, max_results) ==
    Take(SortByDaysAgo(Deduplicate(all_jobs)), max_results)

\* lines 416-426: what search_jobs returns once every future is collected
FinalJobs(all_jobs, keywords, max_results) ==
    LET final_jobs == SortByDaysAgo(Deduplicate(all_jobs))
    IN  IF final_jobs = <<>> THEN _get_mock_jobs(keywords)
        ELSE Take(final_jobs, max_results)

-----------------------------------------------------------------------------
(* job_matcher.py: skill extraction from a description, and the ranking *)

TECHNICAL_SKILLS ==
    {<<"p","y","t","h","o","n">>, <<"j","a","v","a">>, <<"j","a","v","a","s","c","r","i","p","t">>, <<"t","y","p","e","s","c","r","i","p","t">>, <<"c","+","+">>, <<"c","#">>,
     <<"r","u","b","y">>, <<"p","h","p">>, <<"s","w","i","f","t">>, <<"k","o","t","l","i","n">>, <<"g","o">>, <<"r","u","s","t">>, <<"s","c","a","l","a">>,
     <<"r">>, <<"m","a","t","l","a","b">>, <<"s","q","l">>, <<"h","t","m","l">>, <<"c","s","s">>, <<"r","e","a","c","t">>, <<"a","n","g","u","l","a","r">>,
     <<"v","u","e">>, <<"n","e","x","t","j","s">>, <<"n","e","x","t",".","j","s">>, <<"s","v","e","l","t","e">>, <<"d","j","a","n","g","o">>, <<"f","l","a","s","k">>,
     <<"f","a","s","t","a","p","i">>, <<"e","x","p","r","e","s","s">>, <<"n","o","d","e","j","s">>, <<"n","o","d","e",".","j","s">>, <<"s","p","r","i","n","g">>,
     <<"a","s","p",".","n","e","t">>, <<".","n","e","t">>, <<"r","a","i","l","s">>, <<"l","a","r","a","v","e","l">>, <<"a","n","d","r","o","i","d">>, <<"i","o","s">>,
     <<"r","e","a","c","t"," ","n","a","t","i","v","e">>, <<"f","l","u","t","t","e","r">>, <<"x","a","m","a","r","i","n">>, <<"i","o","n","i","c">>, <<"m","y","s","q","l">>,
     <<"p","o","s","t","g","r","e","s","q","l">>, <<"m","o","n","g","o","d","b">>, <<"r","e","d","i","s">>, <<"s","q","l","i","t","e">>, <<"o","r","a","c","l","e">>,
     <<"c","a","s","s","a","n","d","r","a">>, <<"d","y","n","a","m","o","d","b">>, <<"e","l","a","s","t","i","c","s","e","a","r","c","h">>, <<"m","s","s","q","l">>, <<"m","a","r","i","a","d","b">>,
     <<"f","i","r","e","b","a","s","e">>, <<"a","w","s">>, <<"a","z","u","r","e">>, <<"g","c","p">>, <<"g","o","o","g","l","e"," ","c","l","o","u","d">>,
     <<"d","o","c","k","e","r">>, <<"k","u","b","e","r","n","e","t","e","s">>, <<"j","e","n","k","i","n","s">>, <<"g","i","t","l","a","b">>,
     <<"g","i","t","h","u","b"," ","a","c","t","i","o","n","s">>, <<"t","e","r","r","a","f","o","r","m">>, <<"a","n","s","i","b","l","e">>, <<"c","i","/","c","d">>, <<"n","g","i","n","x">>,
     <<"a","p","a","c","h","e">>, <<"m","a","c","h","i","n","e"," ","l","e","a","r","n","i","n","g">>, <<"d","e","e","p"," ","l","e","a","r","n","i","n","g">>, <<"t","e","n","s","o","r","f","l","o","w">>,
     <<"p","y","t","o","r","c","h">>, <<"s","c","i","k","i","t","-","l","e","a","r","n">>, <<"k","e","r","a","s">>, <<"p","a","n","d","a","s">>, <<"n","u","m","p","y">>,
     <<"d","a","t","a"," ","a","n","a","l","y","s","i","s">>, <<"d","a","t","a"," ","s","c","i","e","n","c","e">>, <<"n","l","p">>, <<"c","o","m","p","u","t","e","r"," ","v","i","s","i","o","n">>,
     <<"t","a","b","l","e","a","u">>, <<"p","o","w","e","r"," ","b","i">>, <<"s","p","a","r","k">>, <<"h","a","d","o","o","p">>, <<"a","i","r","f","l","o","w">>, <<"g","i","t">>,
     <<"r","e","s","t"," ","a","p","i">>, <<"g","r","a","p","h","q","l">>, <<"m","i","c","r","o","s","e","r","v","i","c","e","s">>, <<"a","g","i","l","e">>, <<"s","c","r","u","m">>,
     <<"j","i","r","a">>, <<"l","i","n","u","x">>, <<"b","a","s","h">>, <<"p","o","w","e","r","s","h","e","l","l">>, <<"a","p","i">>, <<"j","s","o","n">>,
     <<"x","m","l">>, <<"o","a","u","t","h">>, <<"j","w","t">>, <<"t","e","s","t","i","n","g">>, <<"u","n","i","t"," ","t","e","s","t","i","n","g">>,
     <<"s","e","l","e","n","i","u","m">>, <<"j","e","s","t">>, <<"p","y","t","e","s","t">>, <<"k","a","f","k","a">>, <<"r","a","b","b","i","t","m","q">>}

\* the skills for which line 113 holds
FoundSkills(description) ==
    LET description_lower == lower(description)
    IN  {skill \in TECHNICAL_SKILLS : Contains(description_lower, lower(skill))}

RECURSIVE Without(_, _)
\* the sets left when k elements are taken out of S
Without(S, k) ==
    IF k = 0 THEN {S}
    ELSE UNION {Without(S \ {x}, k - 1) : x \in S}

\* extract_skills_from_description: the values found_skills[:15] may have, as
\* sets.  TECHNICAL_SKILLS is a set of str, whose iteration order changes with
\* the hash seed, so that any 15 of the skills found may be the first 15; the
\* order of the list is read by nothing, calculate_skill_match makes a set of it
extract_skills_from_description(description) ==
    LET found_skills == FoundSkills(description)
    IN  IF Cardinality(found_skills) <= 15 THEN {found_skills}
        ELSE Without(found_skills, Cardinality(found_skills) - 15)

\* hash(job['url']), an integer that depends on the text only
UrlHash(url) ==
    LET F[i \in 0..Len(url)] == IF i = 0 THEN 7 ELSE (F[i - 1] * 31 + Ord[url[i]]) % 65521
    IN  1000 + F[Len(url)]

\* lines 152-167: a live posting in the format of the ranking, with the
\* skills extracted from its description
FormatLiveJob(job, job_skills) ==
    [job_id          |-> UrlHash(job.url),
     title           |-> job.title,
     company         |-> job.company,
     description     |-> Take(job.description, 500),
     required_skills |-> job_skills,
     apply_link      |-> job.url,
     posted_date     |-> job.posted_date,
     days_ago        |-> job.days_ago,
     easy_apply      |-> job.easy_apply,
     is_live         |-> TRUE]

\* lines 173-178: a row of table jobs in the format of the ranking
FormatDatabaseJob(job) ==
    [job_id          |-> job.id,
     title           |-> job.title,
     company         |-> job.company,
     description     |-> job.description,
     required_skills |-> Range(job.required_skills),
     apply_link      |-> job.apply_link,
     posted_date     |-> job.posted_date,
     days_ago        |-> 0,
     easy_apply      |-> FALSE,
     is_live         |-> FALSE]

\* lines 182-205: the posting with its match result
ScoreJob(job, user_skills) ==
    LET match_result == calculate_skill_match(user_skills, SetToSeq(job.required_skills))
    IN  [job_id          |-> job.job_id,
         title           |-> job.title,
         company         |-> job.company,
         description     |-> job.description,
         required_skills |-> job.required_skills,
         apply_link      |-> job.apply_link,
         posted_date     |-> job.posted_date,
         days_ago        |-> job.days_ago,
         easy_apply      |-> job.easy_apply,
         is_live         |-> job.is_live,
         match_score     |-> match_result.match_percentage,
         direct_matches  |-> match_result.direct_matches,
         related_matches |-> match_result.related_matches,
         total_required  |-> match_result.total_required,
         total_matched   |-> match_result.total_matched]

\* variant: sorted by match score alone
RankSort_ScoreOnly(job_matches) ==
    SortByKeys(job_matches,
               [i \in DOMAIN job_matches |-> <<0 - job_matches[i].match_score>>])

\* line 208: job_matches.sort(key=lambda x: (not x['easy_apply'], -x['match_score']))
RankSort(job_matches) ==
    SortByKeys(job_matches,
               [i \in DOMAIN job_matches |->
                   <<IF job_matches[i].easy_apply THEN 0 ELSE 1,
                     0 - job_matches[i].match_score>>])

\* lines 214-218
RecommendationsToSave(top_recommendations) ==
    LET kept == SelectSeq(top_recommendations, LAMBDA rec : ~rec.is_live)
    IN  [i \in 1..Len(kept) |-> [job_id |-> kept[i].job_id, match_score |-> kept[i].match_score]]

\* the rows of the user are kept and the new ones added to them
save_recommendations_Merge(recs, recommendations) == recs \o recommendations

\* database.save_recommendations: the rows of the user are deleted, then the
\* new ones inserted
save_recommendations(recs, recommendations) == recommendations

\* lines 219-220
SaveIfAny(recs, recommendations_to_save) ==
    IF recommendations_to_save # <<>>
    THEN save_recommendations(recs, recommendations_to_save)
    ELSE recs

-----------------------------------------------------------------------------
(* database.py: the recommendations of one user.  Every call opens its own  *)
(* connection (line 15, default isolation level and journal): the first     *)
(* writing statement opens a transaction, and until its commit the other    *)
(* connections read the rows as they were committed.                        *)

\* a statement of an autocommit connection: the rows it leaves are committed at once
Execute_Autocommit(committed, work) == work

\* lines 325-333: a statement run in the open transaction of the writer leaves
\* the committed rows as they are
Execute(committed, work) == committed

\* line 325: DELETE FROM recommendations WHERE user_id = ?
DeleteRows(work) == <<>>

\* lines 329-332: INSERT INTO recommendations for one rec
InsertRow(work, rec) == Append(work, [job_id |-> rec.job_id, match_score |-> rec.match_score])

\* lines 343-345: a row of recommendations joined to its row of jobs
JoinedRow(rec, jobs) ==
    LET j == jobs[CHOOSE k \in DOMAIN jobs : jobs[k].id = rec.job_id]
    IN  [job_id |-> rec.job_id, match_score |-> rec.match_score, title |-> j.title,
         company |-> j.company, description |-> j.description,
         required_skills |-> j.required_skills, apply_link |-> j.apply_link]

\* lines 339-360: the lists get_recommendations may return on the committed rows: the
\* rows that have a job, the higher match_score first, rows of equal score in any
\* order, at most limit of them
get_recommendations(recs, jobs, limit) ==
    LET joined == {i \in DOMAIN recs : \E k \in DOMAIN jobs : jobs[k].id = recs[i].job_id}
        n == Cardinality(joined)
        orders == {f \in [1..n -> joined] :
                      /\ \A a, b \in 1..n : a # b => f[a] # f[b]
                      /\ \A a \in 1..(n - 1) : recs[f[a]].match_score >= recs[f[a + 1]].match_score}
    IN  {Take([k \in 1..n |-> JoinedRow(recs[f[k]], jobs)], limit) : f \in orders}

-----------------------------------------------------------------------------
(* resume_analyzer.py: the patterns of the analyzer                         *)

IsDigit(c) == Ord[c] \in Ord["0"]..Ord["9"]

IsAlpha(c) == Ord[c] \in Ord["A"]..Ord["Z"] \/ Ord[c] \in Ord["a"]..Ord["z"]

\* \w of a str pattern: a letter, a digit or the underscore
IsWordChar(c) == IsAlpha(c) \/ IsDigit(c) \/ c = "_"

\* \s
IsSpace(c) == c \in Whitespace

\* [:\s]
IsColonOrSpace(c) == c = ":" \/ IsSpace(c)

\* the literal lit stands in text right after offset p
LitAt(text, p, lit) ==
    /\ p + Len(lit) <= Len(text)
    /\ \A j \in 1..Len(lit) : text[p + j] = lit[j]

\* the offset where the longest run of characters of the set class ends that starts after offset p
RunEnd(text, p, class) ==
    CHOOSE e \in p..Len(text) :
        /\ \A k \in (p + 1)..e : text[k] \in class
        /\ e = Len(text) \/ text[e + 1] \notin class

\* \d
Digits == {Alphabet[i] : i \in Ord["0"]..Ord["9"]}

\* [:\s]
ColonOrSpace == Whitespace \cup {":"}

\* str.upper()
upper(s) ==
    [i \in 1..Len(s) |-> IF IsAlpha(s[i]) /\ ~(s[i] \in DOMAIN UpperToLower)
                         THEN CHOOSE c \in DOMAIN UpperToLower : UpperToLower[c] = s[i]
                         ELSE s[i]]

\* str.lstrip(chars)
lstrip(s, chars) ==
    LET keep == {i \in 1..Len(s) : s[i] \notin chars}
    IN  IF keep = {} THEN <<>>
        ELSE SubSeq(s, CHOOSE i \in keep : \A j \in keep : i <= j, Len(s))

\* str.rstrip(chars)
rstrip(s, chars) ==
    LET keep == {i \in 1..Len(s) : s[i] \notin chars}
    IN  IF keep = {} THEN <<>>
        ELSE SubSeq(s, 1, CHOOSE i \in keep : \A j \in keep : i >= j)

RECURSIVE split(_, _)
\* str.split(sep) for a one-character sep
split(s, sep) ==
    LET at == {i \in 1..Len(s) : s[i] = sep}
    IN  IF at = {} THEN <<s>>
        ELSE LET first == CHOOSE i \in at : \A j \in at : i <= j
             IN  <<SubSeq(s, 1, first - 1)>> \o split(SubSeq(s, first + 1, Len(s)), sep)

\* len(s.split()): the number of runs of characters other than whitespace
WordCount(s) ==
    Cardinality({i \in 1..Len(s) : ~IsSpace(s[i]) /\ (i = 1 \/ IsSpace(s[i - 1]))})

RECURSIVE join(_, _)
\* sep.join(parts)
join(parts, sep) ==
    IF parts = <<>> THEN <<>>
    ELSE IF Len(parts) = 1 THEN parts[1]
    ELSE parts[1] \o sep \o join(Tail(parts), sep)

\* \b at offset p of text: exactly one of the characters around it is a word character
WordBoundary(text, p) ==
    LET before == p >= 1 /\ IsWordChar(text[p])
        after  == p < Len(text) /\ IsWordChar(text[p + 1])
    IN  before # after

\* re.search(r'\b' + re.escape(skill.lower()) + r'\b', text) finds a match
SearchWord(text, skill) ==
    \E i \in 0..(Len(text) - Len(skill)) :
        /\ \A j \in 1..Len(skill) : text[i + j] = skill[j]
        /\ WordBoundary(text, i)
        /\ WordBoundary(text, i + Len(skill))

SOFT_SKILLS ==
    {<<"l","e","a","d","e","r","s","h","i","p">>, <<"c","o","m","m","u","n","i","c","a","t","i","o","n">>, <<"t","e","a","m","w","o","r","k">>, <<"p","r","o","b","l","e","m"," ","s","o","l","v","i","n","g">>, <<"c","r","i","t","i","c","a","l"," ","t","h","i","n","k","i","n","g">>,
     <<"t","i","m","e"," ","m","a","n","a","g","e","m","e","n","t">>, <<"p","r","o","j","e","c","t"," ","m","a","n","a","g","e","m","e","n","t">>, <<"c","o","l","l","a","b","o","r","a","t","i","o","n">>, <<"a","d","a","p","t","a","b","i","l","i","t","y">>, <<"c","r","e","a","t","i","v","i","t","y">>,
     <<"i","n","t","e","r","p","e","r","s","o","n","a","l">>, <<"p","r","e","s","e","n","t","a","t","i","o","n">>, <<"a","n","a","l","y","t","i","c","a","l">>, <<"d","e","c","i","s","i","o","n"," ","m","a","k","i","n","g">>, <<"c","o","n","f","l","i","c","t"," ","r","e","s","o","l","u","t","i","o","n">>,
     <<"m","e","n","t","o","r","i","n","g">>, <<"n","e","g","o","t","i","a","t","i","o","n">>, <<"s","t","r","a","t","e","g","i","c"," ","t","h","i","n","k","i","n","g">>, <<"a","t","t","e","n","t","i","o","n"," ","t","o"," ","d","e","t","a","i","l">>, <<"m","u","l","t","i","t","a","s","k","i","n","g">>,
     <<"i","n","i","t","i","a","t","i","v","e">>, <<"s","e","l","f","-","m","o","t","i","v","a","t","e","d">>, <<"o","r","g","a","n","i","z","a","t","i","o","n","a","l">>, <<"c","u","s","t","o","m","e","r"," ","s","e","r","v","i","c","e">>, <<"p","u","b","l","i","c"," ","s","p","e","a","k","i","n","g">>}

\* the requirement table, in the order it is declared
ROLE_SKILL_REQUIREMENTS ==
    <<[role |-> "software_engineer", required |->
         <<<<"p","y","t","h","o","n">>, <<"j","a","v","a">>, <<"j","a","v","a","s","c","r","i","p","t">>, <<"g","i","t">>, <<"s","q","l">>, <<"r","e","s","t"," ","a","p","i">>, <<"d","a","t","a"," ","s","t","r","u","c","t","u","r","e","s">>,
           <<"a","l","g","o","r","i","t","h","m","s">>, <<"t","e","s","t","i","n","g">>, <<"p","r","o","b","l","e","m"," ","s","o","l","v","i","n","g">>, <<"t","e","a","m","w","o","r","k">>>>],
      [role |-> "frontend_developer", required |->
         <<<<"h","t","m","l">>, <<"c","s","s">>, <<"j","a","v","a","s","c","r","i","p","t">>, <<"r","e","a","c","t">>, <<"t","y","p","e","s","c","r","i","p","t">>, <<"r","e","s","p","o","n","s","i","v","e"," ","d","e","s","i","g","n">>,
           <<"g","i","t">>, <<"r","e","s","t"," ","a","p","i">>, <<"u","i","/","u","x">>, <<"p","r","o","b","l","e","m"," ","s","o","l","v","i","n","g">>>>],
      [role |-> "backend_developer", required |->
         <<<<"p","y","t","h","o","n">>, <<"j","a","v","a">>, <<"s","q","l">>, <<"r","e","s","t"," ","a","p","i">>, <<"m","i","c","r","o","s","e","r","v","i","c","e","s">>, <<"d","o","c","k","e","r">>,
           <<"d","a","t","a","b","a","s","e"," ","d","e","s","i","g","n">>, <<"g","i","t">>, <<"p","r","o","b","l","e","m"," ","s","o","l","v","i","n","g">>, <<"s","y","s","t","e","m"," ","d","e","s","i","g","n">>>>],
      [role |-> "data_scientist", required |->
         <<<<"p","y","t","h","o","n">>, <<"r">>, <<"s","q","l">>, <<"m","a","c","h","i","n","e"," ","l","e","a","r","n","i","n","g">>, <<"s","t","a","t","i","s","t","i","c","s">>, <<"p","a","n","d","a","s">>, <<"n","u","m","p","y">>,
           <<"d","a","t","a"," ","v","i","s","u","a","l","i","z","a","t","i","o","n">>, <<"p","r","o","b","l","e","m"," ","s","o","l","v","i","n","g">>, <<"c","o","m","m","u","n","i","c","a","t","i","o","n">>, <<"a","n","a","l","y","t","i","c","a","l">>>>],
      [role |-> "devops_engineer", required |->
         <<<<"l","i","n","u","x">>, <<"d","o","c","k","e","r">>, <<"k","u","b","e","r","n","e","t","e","s">>, <<"a","w","s">>, <<"c","i","/","c","d">>, <<"t","e","r","r","a","f","o","r","m">>, <<"b","a","s","h">>,
           <<"p","y","t","h","o","n">>, <<"g","i","t">>, <<"m","o","n","i","t","o","r","i","n","g">>, <<"p","r","o","b","l","e","m"," ","s","o","l","v","i","n","g">>>>],
      [role |-> "full_stack_developer", required |->
         <<<<"j","a","v","a","s","c","r","i","p","t">>, <<"p","y","t","h","o","n">>, <<"r","e","a","c","t">>, <<"n","o","d","e","j","s">>, <<"s","q","l">>, <<"g","i","t">>, <<"r","e","s","t"," ","a","p","i">>,
           <<"h","t","m","l">>, <<"c","s","s">>, <<"p","r","o","b","l","e","m"," ","s","o","l","v","i","n","g">>, <<"t","e","a","m","w","o","r","k">>>>]>>

\* lines 53-63, over self.text
_extract_technical_skills(text) ==
    {skill \in TECHNICAL_SKILLS : SearchWord(text, lower(skill))}

\* lines 65-74, over self.text
_extract_soft_skills(text) ==
    {skill \in SOFT_SKILLS : SearchWord(text, lower(skill))}

\* variant: every place where a keyword stands is counted
KeywordCount_Occurrences(text, keywords) ==
    Cardinality({<<kw, p>> \in keywords \X (0..Len(text)) : LitAt(text, p, kw)})

\* sum(1 for kw in keywords if kw in text)
KeywordCount(text, keywords) == Cardinality({kw \in keywords : Contains(text, kw)})

experience_keywords ==
    {<<"e","x","p","e","r","i","e","n","c","e">>, <<"w","o","r","k","e","d">>, <<"d","e","v","e","l","o","p","e","d">>, <<"i","m","p","l","e","m","e","n","t","e","d">>, <<"d","e","s","i","g","n","e","d">>, <<"l","e","d">>, <<"m","a","n","a","g","e","d">>}

education_keywords ==
    {<<"b","a","c","h","e","l","o","r">>, <<"m","a","s","t","e","r">>, <<"p","h","d">>, <<"d","e","g","r","e","e">>, <<"u","n","i","v","e","r","s","i","t","y">>, <<"c","o","l","l","e","g","e">>, <<"c","e","r","t","i","f","i","e","d">>,
     <<"c","e","r","t","i","f","i","c","a","t","i","o","n">>}

\* lines 224-230
ContentPoints(word_count) ==
    IF word_count >= 300 THEN 30 ELSE IF word_count >= 150 THEN 20 ELSE 10

\* lines 233-241
SkillPoints(skill_count) ==
    IF skill_count >= 15 THEN 25
    ELSE IF skill_count >= 10 THEN 20
    ELSE IF skill_count >= 5 THEN 15
    ELSE Max(skill_count * 2, 5)

\* lines 219-257 without the caps of the buckets and of the sum
_calculate_score_Uncapped(text, technical_skills, soft_skills) ==
    ContentPoints(WordCount(text))
      + SkillPoints(Cardinality(technical_skills))
      + KeywordCount(text, experience_keywords) * 3
      + KeywordCount(text, education_keywords) * 3
      + Cardinality(soft_skills) * 2

\* lines 219-257, over self.text
_calculate_score(text, technical_skills, soft_skills) ==
    Min(ContentPoints(WordCount(text))
          + SkillPoints(Cardinality(technical_skills))
          + Min(KeywordCount(text, experience_keywords) * 3, 20)
          + Min(KeywordCount(text, education_keywords) * 3, 15)
          + Min(Cardinality(soft_skills) * 2, 10),
        100)

\* line 265: the overlap of role number k with the current skills
RoleOverlap(k, current_skills) ==
    Cardinality({lower(s) : s \in Range(ROLE_SKILL_REQUIREMENTS[k].required)} \cap current_skills)

\* line 270 with the last role of the highest overlap
LikelyRole_Last(current_skills) ==
    CHOOSE k \in DOMAIN ROLE_SKILL_REQUIREMENTS :
        /\ \A j \in DOMAIN ROLE_SKILL_REQUIREMENTS :
              RoleOverlap(j, current_skills) <= RoleOverlap(k, current_skills)
        /\ \A j \in (k + 1)..Len(ROLE_SKILL_REQUIREMENTS) :
              RoleOverlap(j, current_skills) < RoleOverlap(k, current_skills)

\* line 270: max(role_scores, key=role_scores.get), the first role of the highest overlap
LikelyRole(current_skills) ==
    CHOOSE k \in DOMAIN ROLE_SKILL_REQUIREMENTS :
        /\ \A j \in DOMAIN ROLE_SKILL_REQUIREMENTS :
              RoleOverlap(j, current_skills) <= RoleOverlap(k, current_skills)
        /\ \A j \in 1..(k - 1) : RoleOverlap(j, current_skills) < RoleOverlap(k, current_skills)

common_skills ==
    <<<<"g","i","t">>, <<"s","q","l">>, <<"r","e","s","t"," ","a","p","i">>, <<"t","e","s","t","i","n","g">>, <<"d","o","c","k","e","r">>, <<"c","i","/","c","d">>, <<"a","g","i","l","e">>>>

\* lines 259-281
_identify_missing_skills(current_skills) ==
    LET likely_role == LikelyRole(current_skills)
        required_skills == {lower(s) : s \in Range(ROLE_SKILL_REQUIREMENTS[likely_role].required)}
        missing == required_skills \ current_skills
    IN  IF missing # {}
        THEN Take(sorted(missing), 8)
        ELSE Take(sorted(Range(common_skills) \ current_skills), 8)

-----------------------------------------------------------------------------
(* resume_analyzer.py: the heuristics of the analyzer.  The inputs are      *)
(* ASCII, so the bullet and dash characters outside ASCII that some         *)
(* patterns also accept never occur.                                        *)

\* a condition's entry of a list built by successive appends
Opt(cond, item) == IF cond THEN <<item>> ELSE <<>>

\* the least element of a non-empty set of integers
Least(S) == CHOOSE x \in S : \A y \in S : x <= y

\* the greatest element of a non-empty set of integers
Greatest(S) == CHOOSE x \in S : \A y \in S : x >= y

\* (?:years?|yrs?) matched right after offset p: the offsets it can end at
YearsWordEnds(text, p) ==
    {p + Len(w) : w \in {w \in {<<"y","e","a","r","s">>, <<"y","e","a","r">>, <<"y","r","s">>, <<"y","r">>} : LitAt(text, p, w)}}

\* \+?\s*(?:years?|yrs?) matched right after offset k: the offsets it can end at
PlusYearsEnds(text, k) ==
    LET k1 == IF LitAt(text, k, <<"+">>) THEN k + 1 ELSE k
    IN  YearsWordEnds(text, RunEnd(text, k1, Whitespace))

\* \s+(?:of\s+)?experience matches right after offset e
OfExperienceAt(text, e) ==
    LET k3 == RunEnd(text, e, Whitespace)
        k4 == RunEnd(text, k3 + 2, Whitespace)
    IN  /\ k3 > e
        /\ \/ LitAt(text, k3, <<"e","x","p","e","r","i","e","n","c","e">>)
           \/ /\ LitAt(text, k3, <<"o","f">>)
              /\ k4 > k3 + 2
              /\ LitAt(text, k4, <<"e","x","p","e","r","i","e","n","c","e">>)

\* line 112: the starts of the digit runs where the first pattern matches
YearsBefore(text) ==
    {i \in 1..Len(text) :
        /\ IsDigit(text[i])
        /\ \E e \in PlusYearsEnds(text, RunEnd(text, i - 1, Digits)) : OfExperienceAt(text, e)}

\* line 113: the starts of the digit runs where the second pattern matches
YearsAfter(text) ==
    {i \in 1..Len(text) :
        /\ IsDigit(text[i])
        /\ \E p \in 0..(i - 2) :
              /\ LitAt(text, p, <<"e","x","p","e","r","i","e","n","c","e">>)
              /\ p + Len(<<"e","x","p","e","r","i","e","n","c","e">>) < i - 1
              /\ \A k \in (p + Len(<<"e","x","p","e","r","i","e","n","c","e">>) + 1)..(i - 1) : IsColonOrSpace(text[k])
        /\ PlusYearsEnds(text, RunEnd(text, i - 1, Digits)) # {}}

\* lines 109-121, over self.text: group(1) of the first pattern that matches
_extract_years_of_experience(text) ==
    LET digits(S) == SubSeq(text, Least(S), RunEnd(text, Least(S) - 1, Digits))
    IN  IF YearsBefore(text) # {} THEN digits(YearsBefore(text))
        ELSE IF YearsAfter(text) # {} THEN digits(YearsAfter(text))
        ELSE <<>>

\* \n\n or \n[A-Z] under IGNORECASE stands right after offset e
TerminatorAt(text, e) ==
    /\ e + 2 <= Len(text)
    /\ text[e + 1] = "\n"
    /\ text[e + 2] = "\n" \/ IsAlpha(text[e + 2])

\* where group(1) can start when the header keyword kw stands right after
\* offset p: after one or more of [:\s], with a terminator still to come;
\* low is the text in lower case, for IGNORECASE
SummaryStarts(text, low, p, kw) ==
    LET q == p + Len(kw)
    IN  IF ~LitAt(low, p, kw) THEN {}
        ELSE {s \in (q + 1)..RunEnd(text, q, ColonOrSpace) :
                 \E e \in s..Len(text) : TerminatorAt(text, e)}

\* re.search of a summary pattern with the header keywords kws (IGNORECASE, DOTALL):
\* [found, group(1)]; the leftmost match, its separator run greedy, its body lazy
SearchSummary(text, low, kws) ==
    LET at == {p \in 0..Len(text) : \E n \in DOMAIN kws : SummaryStarts(text, low, p, kws[n]) # {}}
    IN  IF at = {} THEN [found |-> FALSE, group |-> <<>>]
        ELSE LET p == Least(at)
                 n == Least({m \in DOMAIN kws : SummaryStarts(text, low, p, kws[m]) # {}})
                 s == Greatest(SummaryStarts(text, low, p, kws[n]))
                 e == Least({d \in s..Len(text) : TerminatorAt(text, d)})
             IN  [found |-> TRUE, group |-> SubSeq(text, s + 1, e)]

summary_patterns ==
    <<<<<<"p","r","o","f","e","s","s","i","o","n","a","l"," ","s","u","m","m","a","r","y">>, <<"s","u","m","m","a","r","y">>, <<"p","r","o","f","i","l","e">>, <<"o","b","j","e","c","t","i","v","e">>>>,
      <<<<"a","b","o","u","t"," ","m","e">>, <<"o","v","e","r","v","i","e","w">>>>>>

\* lines 95-100: the body of a summary section that is longer than 50 characters
SummarySection(original_text) ==
    LET low == lower(original_text)
        body(n) == strip(SearchSummary(original_text, low, summary_patterns[n]).group)
        long == {n \in DOMAIN summary_patterns : Len(body(n)) > 50}
    IN  IF long = {} THEN <<>> ELSE Take(body(Least(long)), 500)

\* lines 88-107: the summary when the collaborator gave none
SummaryFallback(original_text, text) ==
    LET section == SummarySection(original_text)
        years_exp == _extract_years_of_experience(text)
    IN  IF section # <<>> THEN section
        ELSE IF years_exp # <<>>
        THEN <<"P","r","o","f","e","s","s","i","o","n","a","l"," ","w","i","t","h"," ">> \o years_exp \o <<" ","y","e","a","r","s"," ","o","f"," ","e","x","p","e","r","i","e","n","c","e"," ","i","n"," ","s","o","f","t","w","a","r","e"," ","d","e","v","e","l","o","p","m","e","n","t"," ","a","n","d"," ","t","e","c","h","n","o","l","o","g","y","."," ","S","k","i","l","l","e","d"," ","i","n"," ","m","u","l","t","i","p","l","e"," ","p","r","o","g","r","a","m","m","i","n","g"," ","l","a","n","g","u","a","g","e","s"," ","a","n","d"," ","f","r","a","m","e","w","o","r","k","s"," ","w","i","t","h"," ","a"," ","p","r","o","v","e","n"," ","t","r","a","c","k"," ","r","e","c","o","r","d"," ","o","f"," ","d","e","l","i","v","e","r","i","n","g"," ","q","u","a","l","i","t","y"," ","s","o","l","u","t","i","o","n","s",".">>
        ELSE <<"T","e","c","h","n","o","l","o","g","y"," ","p","r","o","f","e","s","s","i","o","n","a","l"," ","w","i","t","h"," ","e","x","p","e","r","i","e","n","c","e"," ","i","n"," ","s","o","f","t","w","a","r","e"," ","d","e","v","e","l","o","p","m","e","n","t",","," ","d","e","m","o","n","s","t","r","a","t","i","n","g"," ","p","r","o","f","i","c","i","e","n","c","y"," ","i","n"," ","v","a","r","i","o","u","s"," ","t","e","c","h","n","i","c","a","l"," ","s","k","i","l","l","s"," ","a","n","d"," ","t","o","o","l","s",".">>

\* lines 137-177: the strengths when the collaborator gave none
StrengthsFallback(text, technical_skills, soft_skills) ==
    LET frontend == {<<"r","e","a","c","t">>, <<"a","n","g","u","l","a","r">>, <<"v","u","e">>, <<"h","t","m","l">>, <<"c","s","s">>, <<"j","a","v","a","s","c","r","i","p","t">>, <<"t","y","p","e","s","c","r","i","p","t">>}
        backend == {<<"p","y","t","h","o","n">>, <<"j","a","v","a">>, <<"n","o","d","e","j","s">>, <<"n","o","d","e",".","j","s">>, <<"d","j","a","n","g","o">>, <<"f","l","a","s","k">>, <<"s","p","r","i","n","g">>}
        cloud_skills == {<<"a","w","s">>, <<"a","z","u","r","e">>, <<"g","c","p">>, <<"g","o","o","g","l","e"," ","c","l","o","u","d">>, <<"d","o","c","k","e","r">>, <<"k","u","b","e","r","n","e","t","e","s">>}
        data_skills == {<<"p","y","t","h","o","n">>, <<"s","q","l">>, <<"p","a","n","d","a","s">>, <<"m","a","c","h","i","n","e"," ","l","e","a","r","n","i","n","g">>, <<"d","a","t","a"," ","s","c","i","e","n","c","e">>, <<"t","a","b","l","e","a","u">>, <<"p","o","w","e","r"," ","b","i">>}
        strengths ==
            Opt(Cardinality(technical_skills) >= 15,
                <<"E","x","t","e","n","s","i","v","e"," ","t","e","c","h","n","i","c","a","l"," ","s","k","i","l","l"," ","s","e","t"," ","w","i","t","h"," ","e","x","p","e","r","t","i","s","e"," ","a","c","r","o","s","s"," ","m","u","l","t","i","p","l","e"," ","t","e","c","h","n","o","l","o","g","i","e","s">>)
            \o Opt(Cardinality(technical_skills) < 15 /\ Cardinality(technical_skills) >= 8,
                <<"S","o","l","i","d"," ","t","e","c","h","n","i","c","a","l"," ","f","o","u","n","d","a","t","i","o","n"," ","w","i","t","h"," ","d","i","v","e","r","s","e"," ","t","e","c","h","n","o","l","o","g","y"," ","e","x","p","e","r","i","e","n","c","e">>)
            \o Opt(technical_skills \cap frontend # {} /\ technical_skills \cap backend # {},
                <<"F","u","l","l","-","s","t","a","c","k"," ","d","e","v","e","l","o","p","m","e","n","t"," ","c","a","p","a","b","i","l","i","t","i","e","s"," ","d","e","m","o","n","s","t","r","a","t","e","d">>)
            \o Opt(Cardinality(technical_skills \cap cloud_skills) >= 2,
                <<"M","o","d","e","r","n"," ","c","l","o","u","d"," ","a","n","d"," ","D","e","v","O","p","s"," ","e","x","p","e","r","i","e","n","c","e">>)
            \o Opt(Cardinality(technical_skills \cap data_skills) >= 3,
                <<"S","t","r","o","n","g"," ","d","a","t","a"," ","a","n","a","l","y","s","i","s"," ","a","n","d"," ","p","r","o","c","e","s","s","i","n","g"," ","c","a","p","a","b","i","l","i","t","i","e","s">>)
            \o Opt(Cardinality(soft_skills) >= 5,
                <<"W","e","l","l","-","r","o","u","n","d","e","d"," ","p","r","o","f","e","s","s","i","o","n","a","l"," ","s","k","i","l","l","s"," ","i","n","c","l","u","d","i","n","g"," ","l","e","a","d","e","r","s","h","i","p"," ","a","n","d"," ","c","o","m","m","u","n","i","c","a","t","i","o","n">>)
            \o Opt(Contains(text, <<"s","e","n","i","o","r">>) \/ Contains(text, <<"l","e","a","d">>),
                <<"L","e","a","d","e","r","s","h","i","p"," ","a","n","d"," ","s","e","n","i","o","r","-","l","e","v","e","l"," ","e","x","p","e","r","i","e","n","c","e"," ","d","e","m","o","n","s","t","r","a","t","e","d">>)
            \o Opt(Contains(text, <<"c","e","r","t","i","f","i","e","d">>) \/ Contains(text, <<"c","e","r","t","i","f","i","c","a","t","i","o","n">>),
                <<"P","r","o","f","e","s","s","i","o","n","a","l"," ","c","e","r","t","i","f","i","c","a","t","i","o","n","s"," ","a","n","d"," ","c","o","n","t","i","n","u","o","u","s"," ","l","e","a","r","n","i","n","g"," ","c","o","m","m","i","t","m","e","n","t">>)
    IN  IF strengths = <<>>
        THEN <<<<"D","e","m","o","n","s","t","r","a","t","e","d"," ","t","e","c","h","n","i","c","a","l"," ","c","o","m","p","e","t","e","n","c","y"," ","i","n"," ","s","o","f","t","w","a","r","e"," ","d","e","v","e","l","o","p","m","e","n","t">>>>
        ELSE Take(strengths, 5)

\* \d+% or \$\d+ is found in text
HasFigure(text) ==
    \E i \in 1..(Len(text) - 1) :
        \/ IsDigit(text[i]) /\ text[i + 1] = "%"
        \/ text[i] = "$" /\ IsDigit(text[i + 1])

\* re.search(r'\d+%|\$\d+|improved|increased|reduced', text) finds a match
HasAchievement(text) ==
    \/ HasFigure(text)
    \/ \E w \in {<<"i","m","p","r","o","v","e","d">>, <<"i","n","c","r","e","a","s","e","d">>, <<"r","e","d","u","c","e","d">>} : Contains(text, w)

\* lines 193-217: the weaknesses when the collaborator gave none
WeaknessesFallback(text, technical_skills, soft_skills) ==
    LET modern_tech == {<<"r","e","a","c","t">>, <<"d","o","c","k","e","r">>, <<"k","u","b","e","r","n","e","t","e","s">>, <<"a","w","s">>, <<"m","i","c","r","o","s","e","r","v","i","c","e","s">>, <<"c","i","/","c","d">>}
    IN  Take(Opt(Cardinality(technical_skills) < 5,
                <<"L","i","m","i","t","e","d"," ","r","a","n","g","e"," ","o","f"," ","t","e","c","h","n","i","c","a","l"," ","s","k","i","l","l","s"," ","-"," ","c","o","n","s","i","d","e","r"," ","e","x","p","a","n","d","i","n","g"," ","t","e","c","h","n","o","l","o","g","y"," ","s","t","a","c","k">>)
             \o Opt(Cardinality(technical_skills \cap modern_tech) < 2,
                <<"L","i","m","i","t","e","d"," ","e","x","p","o","s","u","r","e"," ","t","o"," ","m","o","d","e","r","n"," ","d","e","v","e","l","o","p","m","e","n","t"," ","p","r","a","c","t","i","c","e","s"," ","a","n","d"," ","c","l","o","u","d"," ","t","e","c","h","n","o","l","o","g","i","e","s">>)
             \o Opt(Cardinality(soft_skills) < 3,
                <<"S","o","f","t"," ","s","k","i","l","l","s"," ","n","o","t"," ","p","r","o","m","i","n","e","n","t","l","y"," ","h","i","g","h","l","i","g","h","t","e","d"," ","-"," ","e","m","p","h","a","s","i","z","e"," ","t","e","a","m","w","o","r","k"," ","a","n","d"," ","c","o","m","m","u","n","i","c","a","t","i","o","n">>)
             \o Opt(~Contains(text, <<"s","u","m","m","a","r","y">>) /\ ~Contains(text, <<"o","b","j","e","c","t","i","v","e">>),
                <<"M","i","s","s","i","n","g"," ","p","r","o","f","e","s","s","i","o","n","a","l"," ","s","u","m","m","a","r","y"," ","o","r"," ","o","b","j","e","c","t","i","v","e"," ","s","t","a","t","e","m","e","n","t">>)
             \o Opt(~HasAchievement(text) /\ ~Contains(text, <<"o","p","t","i","m","i","z","e","d">>),
                <<"L","i","m","i","t","e","d"," ","q","u","a","n","t","i","f","i","a","b","l","e"," ","a","c","h","i","e","v","e","m","e","n","t","s"," ","-"," ","a","d","d"," ","m","e","t","r","i","c","s"," ","t","o"," ","d","e","m","o","n","s","t","r","a","t","e"," ","i","m","p","a","c","t">>),
             4)

\* lines 299-336: the suggestions when the collaborator gave none
SuggestionsFallback(text, technical_skills, soft_skills, score) ==
    LET modern_tech == {<<"d","o","c","k","e","r">>, <<"k","u","b","e","r","n","e","t","e","s">>, <<"c","i","/","c","d">>, <<"m","i","c","r","o","s","e","r","v","i","c","e","s">>, <<"c","l","o","u","d">>}
    IN  Take(Opt(score < 60,
                <<"A","d","d"," ","m","o","r","e"," ","d","e","t","a","i","l","e","d"," ","d","e","s","c","r","i","p","t","i","o","n","s"," ","o","f"," ","y","o","u","r"," ","w","o","r","k"," ","e","x","p","e","r","i","e","n","c","e"," ","a","n","d"," ","a","c","h","i","e","v","e","m","e","n","t","s">>)
             \o Opt(score < 60,
                <<"I","n","c","l","u","d","e"," ","s","p","e","c","i","f","i","c"," ","t","e","c","h","n","o","l","o","g","i","e","s"," ","a","n","d"," ","t","o","o","l","s"," ","y","o","u","'","v","e"," ","u","s","e","d"," ","i","n"," ","e","a","c","h"," ","r","o","l","e">>)
             \o Opt(Cardinality(technical_skills) < 8,
                <<"E","x","p","a","n","d"," ","y","o","u","r"," ","t","e","c","h","n","i","c","a","l"," ","s","k","i","l","l"," ","s","e","t"," ","b","y"," ","l","e","a","r","n","i","n","g"," ","i","n","-","d","e","m","a","n","d"," ","t","e","c","h","n","o","l","o","g","i","e","s"," ","l","i","k","e"," ","R","e","a","c","t",","," ","D","o","c","k","e","r",","," ","o","r"," ","A","W","S">>)
             \o Opt(Cardinality(soft_skills) < 4,
                <<"H","i","g","h","l","i","g","h","t"," ","s","o","f","t"," ","s","k","i","l","l","s"," ","s","u","c","h"," ","a","s"," ","l","e","a","d","e","r","s","h","i","p",","," ","c","o","m","m","u","n","i","c","a","t","i","o","n",","," ","a","n","d"," ","t","e","a","m","w","o","r","k"," ","i","n"," ","y","o","u","r"," ","e","x","p","e","r","i","e","n","c","e"," ","d","e","s","c","r","i","p","t","i","o","n","s">>)
             \o Opt(~HasAchievement(text),
                <<"A","d","d"," ","q","u","a","n","t","i","f","i","a","b","l","e"," ","a","c","h","i","e","v","e","m","e","n","t","s"," ","(","e",".","g",".",","," ","'","I","m","p","r","o","v","e","d"," ","p","e","r","f","o","r","m","a","n","c","e"," ","b","y"," ","4","0","%","'",","," ","'","R","e","d","u","c","e","d"," ","c","o","s","t","s"," ","b","y"," ","$","5","0","K","'",")">>)
             \o Opt(Cardinality(technical_skills \cap modern_tech) < 2,
                <<"G","a","i","n"," ","e","x","p","e","r","i","e","n","c","e"," ","w","i","t","h"," ","m","o","d","e","r","n"," ","D","e","v","O","p","s"," ","a","n","d"," ","c","l","o","u","d"," ","t","e","c","h","n","o","l","o","g","i","e","s"," ","t","o"," ","s","t","a","y"," ","c","o","m","p","e","t","i","t","i","v","e">>)
             \o Opt(~Contains(text, <<"s","u","m","m","a","r","y">>) /\ ~Contains(text, <<"o","b","j","e","c","t","i","v","e">>),
                <<"A","d","d"," ","a"," ","p","r","o","f","e","s","s","i","o","n","a","l"," ","s","u","m","m","a","r","y"," ","a","t"," ","t","h","e"," ","t","o","p"," ","h","i","g","h","l","i","g","h","t","i","n","g"," ","y","o","u","r"," ","k","e","y"," ","s","t","r","e","n","g","t","h","s"," ","a","n","d"," ","e","x","p","e","r","i","e","n","c","e">>)
             \o Opt(~Contains(text, <<"p","r","o","j","e","c","t">>),
                <<"I","n","c","l","u","d","e"," ","n","o","t","a","b","l","e"," ","p","r","o","j","e","c","t","s"," ","w","i","t","h"," ","d","e","s","c","r","i","p","t","i","o","n","s"," ","o","f"," ","t","e","c","h","n","o","l","o","g","i","e","s"," ","u","s","e","d"," ","a","n","d"," ","o","u","t","c","o","m","e","s"," ","a","c","h","i","e","v","e","d">>)
             \o Opt(~Contains(text, <<"c","e","r","t","i","f","i">>),
                <<"C","o","n","s","i","d","e","r"," ","o","b","t","a","i","n","i","n","g"," ","r","e","l","e","v","a","n","t"," ","c","e","r","t","i","f","i","c","a","t","i","o","n","s"," ","(","A","W","S",","," ","A","z","u","r","e",","," ","G","C","P",","," ","o","r"," ","t","e","c","h","n","o","l","o","g","y","-","s","p","e","c","i","f","i","c"," ","c","e","r","t","i","f","i","c","a","t","i","o","n","s",")">>),
             6)

-----------------------------------------------------------------------------
(* ai_service.py: what a call of the collaborator returns.  An outcome is   *)
(* [raised, text]: generate_content raised, or the text of its response.    *)
(* None and the empty answer are both falsy where the results are read, and *)
(* both are the empty sequence here.                                        *)

\* lines 43-64
generate_intelligent_summary(outcome) ==
    IF outcome.raised THEN <<>> ELSE strip(outcome.text)

RECURSIVE ParseStrengthsWeaknesses(_, _, _, _)
\* lines 219-244: the lines of the response that are left, the current section
\* and the two lists so far
ParseStrengthsWeaknesses(lines, current_section, strengths, weaknesses) ==
    IF lines = <<>>
    THEN [strengths |-> Take(strengths, 5), weaknesses |-> Take(weaknesses, 4)]
    ELSE LET line == strip(Head(lines))
             cleaned == strip(lstrip(line, {"-"}))
             kept == line # <<>> /\ line[1] = "-" /\ Len(cleaned) > 10
         IN  IF Contains(upper(line), <<"S","T","R","E","N","G","T","H">>)
             THEN ParseStrengthsWeaknesses(Tail(lines), "strengths", strengths, weaknesses)
             ELSE IF \E w \in {<<"W","E","A","K","N","E","S","S">>, <<"I","M","P","R","O","V","E","M","E","N","T">>, <<"A","R","E","A">>} : Contains(upper(line), w)
             THEN ParseStrengthsWeaknesses(Tail(lines), "weaknesses", strengths, weaknesses)
             ELSE ParseStrengthsWeaknesses(Tail(lines), current_section,
                     strengths \o Opt(kept /\ current_section = "strengths", cleaned),
                     weaknesses \o Opt(kept /\ current_section = "weaknesses", cleaned))

\* lines 217-244
_parse_strengths_weaknesses(ai_response) ==
    ParseStrengthsWeaknesses(split(ai_response, "\n"), "none", <<>>, <<>>)

\* lines 110-140: None is the result without strengths and weaknesses
analyze_strengths_weaknesses(outcome) ==
    IF outcome.raised THEN [strengths |-> <<>>, weaknesses |-> <<>>]
    ELSE _parse_strengths_weaknesses(outcome.text)

RECURSIVE ParseSuggestions(_, _)
\* lines 248-256
ParseSuggestions(lines, suggestions) ==
    IF lines = <<>> THEN Take(suggestions, 6)
    ELSE LET line == strip(Head(lines))
             cleaned == strip(lstrip(line, {"-", "*"}))
             kept == line # <<>> /\ line[1] \in {"-", "*"} /\ Len(cleaned) > 15
         IN  ParseSuggestions(Tail(lines), suggestions \o Opt(kept, cleaned))

\* lines 246-256
_parse_suggestions(ai_response) == ParseSuggestions(split(ai_response, "\n"), <<>>)

\* lines 149-177
generate_personalized_suggestions(outcome) ==
    IF outcome.raised THEN <<>> ELSE _parse_suggestions(outcome.text)

-----------------------------------------------------------------------------
(* resume_analyzer.py: the section parsers of the fallback extraction.      *)
(* A match of a pattern is the offset it ends at, -1 when there is none.    *)

Letters == {c \in Range(Alphabet) : IsAlpha(c)}

\* \d{4} stands right after offset p
FourDigits(s, p) ==
    /\ p + 4 <= Len(s)
    /\ \A k \in 1..4 : IsDigit(s[p + k])

\* (?:19|20)\d{2} stands right after offset p
CenturyYear(s, p) ==
    /\ FourDigits(s, p)
    /\ LitAt(s, p, <<"1","9">>) \/ LitAt(s, p, <<"2","0">>)

months ==
    {<<"j","a","n">>, <<"f","e","b">>, <<"m","a","r">>, <<"a","p","r">>, <<"m","a","y">>, <<"j","u","n">>, <<"j","u","l">>, <<"a","u","g">>, <<"s","e","p">>, <<"o","c","t">>,
     <<"n","o","v">>, <<"d","e","c">>}

\* (?:Jan|...|Dec)[a-z]*[\s.,]+\d{4} right after offset p of the lower-case line
MonthYearEnd(low, p) ==
    IF \E m \in months : LitAt(low, p, m)
    THEN LET a == RunEnd(low, p + 3, Letters)
             b == RunEnd(low, a, Whitespace \cup {".", ","})
         IN  IF b > a /\ FourDigits(low, b) THEN b + 4 ELSE -1
    ELSE -1

\* \d{1,2}/\d{4} right after offset p
SlashYearEnd(low, p) ==
    IF p + 2 <= Len(low) /\ IsDigit(low[p + 1]) /\ IsDigit(low[p + 2])
          /\ LitAt(low, p + 2, <<"/">>) /\ FourDigits(low, p + 3)
    THEN p + 7
    ELSE IF p + 1 <= Len(low) /\ IsDigit(low[p + 1])
               /\ LitAt(low, p + 1, <<"/">>) /\ FourDigits(low, p + 2)
    THEN p + 6
    ELSE -1

\* the end of a range: a year, "present" or "current", right after offset q
RangeEndEnd(low, q, century) ==
    IF (IF century THEN CenturyYear(low, q) ELSE FourDigits(low, q)) THEN q + 4
    ELSE IF LitAt(low, q, <<"p","r","e","s","e","n","t">>) \/ LitAt(low, q, <<"c","u","r","r","e","n","t">>) THEN q + 7
    ELSE -1

\* \d{4}\s*-\s*(?:\d{4}|present|current) right after offset p
YearRangeEnd(low, p) ==
    IF FourDigits(low, p)
    THEN LET a == RunEnd(low, p + 4, Whitespace)
         IN  IF LitAt(low, a, <<"-">>)
             THEN RangeEndEnd(low, RunEnd(low, a + 1, Whitespace), FALSE)
             ELSE -1
    ELSE -1

\* (?:19|20)\d{2}\s*[-to]+\s*(?:(?:19|20)\d{2}|present|current) right after offset p
YearToYearEnd(low, p) ==
    IF CenturyYear(low, p)
    THEN LET a == RunEnd(low, p + 4, Whitespace)
             c == RunEnd(low, a, {"-", "t", "o"})
         IN  IF c > a THEN RangeEndEnd(low, RunEnd(low, c, Whitespace), TRUE) ELSE -1
    ELSE -1

\* lines 543-545: date_pattern right after offset p, the first alternative that matches
DatePatternEnd(low, p) ==
    IF MonthYearEnd(low, p) >= 0 THEN MonthYearEnd(low, p)
    ELSE IF SlashYearEnd(low, p) >= 0 THEN SlashYearEnd(low, p)
    ELSE IF YearRangeEnd(low, p) >= 0 THEN YearRangeEnd(low, p)
    ELSE YearToYearEnd(low, p)

\* line 563: re.search(date_pattern, stripped, re.IGNORECASE), the leftmost match
SearchDate(stripped) ==
    LET low == lower(stripped)
        at == {p \in 0..Len(stripped) : DatePatternEnd(low, p) >= 0}
    IN  IF at = {} THEN [found |-> FALSE, start |-> 0, end |-> 0]
        ELSE [found |-> TRUE, start |-> Least(at), end |-> DatePatternEnd(low, Least(at))]

\* (?:at|@|[-|,]) right after offset a: the offsets it can end at
SeparatorEnds(s, a) ==
    {a + Len(w) : w \in {w \in {<<"a","t">>, <<"@">>, <<"-">>, <<"|">>, <<",">>} : LitAt(s, a, w)}}

\* line 578: re.split(r'\s+(?:at|@|[-|,])\s+', remaining, maxsplit=1)
SplitRoleCompany(remaining) ==
    LET cut(p) == {b \in SeparatorEnds(remaining, RunEnd(remaining, p, Whitespace)) :
                      RunEnd(remaining, b, Whitespace) > b}
        at == {p \in 0..Len(remaining) :
                  /\ RunEnd(remaining, p, Whitespace) > p
                  /\ cut(p) # {}}
    IN  IF at = {} THEN <<remaining>>
        ELSE LET p == Least(at)
                 b == CHOOSE x \in cut(p) : TRUE
             IN  <<SubSeq(remaining, 1, p),
                   SubSeq(remaining, RunEnd(remaining, b, Whitespace) + 1, Len(remaining))>>

\* line 548
NoExperience(duration) ==
    [company |-> <<>>, role |-> <<>>, duration |-> duration, description |-> <<>>]

\* lines 555-557: the entry with the description lines joined
Described(entry, desc_lines) ==
    [entry EXCEPT !.description = strip(join(desc_lines, <<" ">>))]

\* lines 571-584: the entry a line with a date opens
DatedExperience(stripped) ==
    LET duration_match == SearchDate(stripped)
        duration == strip(SubSeq(stripped, duration_match.start + 1, duration_match.end))
        remaining == strip(rstrip(strip(SubSeq(stripped, 1, duration_match.start)), {"|", ",", "-"}))
        parts == SplitRoleCompany(remaining)
    IN  IF remaining = <<>> THEN NoExperience(duration)
        ELSE IF Len(parts) = 2
        THEN [NoExperience(duration) EXCEPT !.role = strip(parts[1]), !.company = strip(parts[2])]
        ELSE [NoExperience(duration) EXCEPT !.role = remaining]

RECURSIVE ExperienceLoop(_, _, _, _)
\* lines 551-601: the lines that are left, entries, current_entry and desc_lines
ExperienceLoop(lines, entries, current_entry, desc_lines) ==
    LET started == current_entry.role # <<>> \/ current_entry.company # <<>>
        saved == IF started THEN Append(entries, Described(current_entry, desc_lines)) ELSE entries
    IN  IF lines = <<>> THEN saved
        ELSE LET stripped == strip(Head(lines))
             IN  IF stripped = <<>>
                 THEN IF started
                      THEN ExperienceLoop(Tail(lines), saved, NoExperience(<<>>), <<>>)
                      ELSE ExperienceLoop(Tail(lines), entries, current_entry, desc_lines)
                 ELSE IF SearchDate(stripped).found
                 THEN ExperienceLoop(Tail(lines), saved, DatedExperience(stripped),
                                     IF started THEN <<>> ELSE desc_lines)
                 ELSE IF current_entry.role = <<>> /\ current_entry.duration = <<>>
                 THEN ExperienceLoop(Tail(lines), entries,
                                     IF current_entry.company = <<>>
                                     THEN [current_entry EXCEPT !.role = stripped]
                                     ELSE current_entry,
                                     desc_lines)
                 ELSE IF current_entry.role # <<>> /\ current_entry.company = <<>>
                            /\ WordCount(stripped) <= 6
                 THEN ExperienceLoop(Tail(lines), entries,
                                     [current_entry EXCEPT !.company = stripped], desc_lines)
                 ELSE ExperienceLoop(Tail(lines), entries, current_entry,
                                     Append(desc_lines, stripped))

\* lines 537-603 without the cut to 5 entries
_parse_experience_section_Uncut(section) ==
    ExperienceLoop(split(strip(section), "\n"), <<>>, NoExperience(<<>>), <<>>)

\* lines 537-603
_parse_experience_section(section) ==
    Take(ExperienceLoop(split(strip(section), "\n"), <<>>, NoExperience(<<>>), <<>>), 5)

\* line 630: the year, alone or opening a range, right after offset p; case matters here
YearEnd(s, p) ==
    IF CenturyYear(s, p)
    THEN LET a == RunEnd(s, p + 4, Whitespace)
             b == RunEnd(s, a + 1, Whitespace)
         IN  IF ~LitAt(s, a, <<"-">>) THEN p + 4
             ELSE IF CenturyYear(s, b) THEN b + 4
             ELSE IF \E w \in {<<"P","r","e","s","e","n","t">>, <<"p","r","e","s","e","n","t">>, <<"C","u","r","r","e","n","t">>, <<"c","u","r","r","e","n","t">>} : LitAt(s, b, w)
             THEN b + 7
             ELSE p + 4
    ELSE -1

\* line 630: re.search of the year pattern, the leftmost match
SearchYear(stripped) ==
    LET at == {p \in 0..Len(stripped) : YearEnd(stripped, p) >= 0}
    IN  IF at = {} THEN [found |-> FALSE, start |-> 0, end |-> 0]
        ELSE [found |-> TRUE, start |-> Least(at), end |-> YearEnd(stripped, Least(at))]

RECURSIVE Remove(_, _)
\* s.replace(old, '') for a non-empty old
Remove(s, old) ==
    LET at == {p \in 0..Len(s) : LitAt(s, p, old)}
    IN  IF at = {} THEN s
        ELSE SubSeq(s, 1, Least(at)) \o Remove(SubSeq(s, Least(at) + Len(old) + 1, Len(s)), old)

\* lines 612-617
degree_keywords ==
    {<<"b","a","c","h","e","l","o","r">>, <<"m","a","s","t","e","r">>, <<"b",".","s",".">>, <<"b",".","a",".">>, <<"m",".","s",".">>, <<"m",".","a",".">>, <<"p","h",".","d">>, <<"p","h","d">>,
     <<"b",".","t","e","c","h">>, <<"b","t","e","c","h">>, <<"m",".","t","e","c","h">>, <<"m","t","e","c","h">>, <<"b","s","c">>, <<"m","s","c">>, <<"m","b","a">>, <<"d","i","p","l","o","m","a">>,
     <<"a","s","s","o","c","i","a","t","e">>, <<"b",".","e",".">>, <<"m",".","e",".">>, <<"b","c","a">>, <<"m","c","a">>, <<"b",".","c","o","m">>, <<"m",".","c","o","m">>,
     <<"b","a","c","h","e","l","o","r"," ","o","f">>, <<"m","a","s","t","e","r"," ","o","f">>, <<"d","o","c","t","o","r"," ","o","f">>}

\* line 638
institution_keywords ==
    {<<"u","n","i","v","e","r","s","i","t","y">>, <<"c","o","l","l","e","g","e">>, <<"i","n","s","t","i","t","u","t","e">>, <<"s","c","h","o","o","l">>, <<"a","c","a","d","e","m","y">>}

\* line 619
NoEducation == [institution |-> <<>>, degree |-> <<>>, year |-> <<>>]

\* the text before the match without the separators it ends with
BeforeMatch(stripped, m) ==
    strip(rstrip(strip(SubSeq(stripped, 1, m.start)), {"|", ",", "-"}))

\* lines 629-664: what a line that is not blank does to current_entry
EducationLine(stripped, current_entry) ==
    LET year_match == SearchYear(stripped)
        year == strip(SubSeq(stripped, year_match.start + 1, year_match.end))
        line_lower == lower(stripped)
        has_degree == \E kw \in degree_keywords : Contains(line_lower, kw)
        has_institution == \E kw \in institution_keywords : Contains(line_lower, kw)
        remaining == strip(rstrip(strip(Remove(stripped,
                         SubSeq(stripped, year_match.start + 1, year_match.end))),
                         {"|", ",", "-"}))
    IN  IF has_degree
        THEN IF year_match.found
             THEN [current_entry EXCEPT !.year = year, !.degree = BeforeMatch(stripped, year_match)]
             ELSE [current_entry EXCEPT !.degree = stripped]
        ELSE IF has_institution
        THEN IF year_match.found /\ current_entry.year = <<>>
             THEN [current_entry EXCEPT !.year = year,
                                        !.institution = BeforeMatch(stripped, year_match)]
             ELSE [current_entry EXCEPT !.institution = stripped]
        ELSE IF year_match.found /\ current_entry.year = <<>>
        THEN IF remaining # <<>> /\ current_entry.degree = <<>>
             THEN [current_entry EXCEPT !.year = year, !.degree = remaining]
             ELSE [current_entry EXCEPT !.year = year]
        ELSE IF current_entry.institution = <<>> /\ current_entry.degree = <<>>
        THEN [current_entry EXCEPT !.institution = stripped]
        ELSE current_entry

RECURSIVE EducationLoop(_, _, _)
\* lines 621-667: the lines that are left, entries and current_entry
EducationLoop(lines, entries, current_entry) ==
    LET started == current_entry.degree # <<>> \/ current_entry.institution # <<>>
    IN  IF lines = <<>> THEN IF started THEN Append(entries, current_entry) ELSE entries
        ELSE LET stripped == strip(Head(lines))
                 has_degree == \E kw \in degree_keywords : Contains(lower(stripped), kw)
                 complete == /\ current_entry.degree # <<>>
                             /\ current_entry.institution # <<>> \/ current_entry.year # <<>>
             IN  IF stripped = <<>>
                 THEN IF started
                      THEN EducationLoop(Tail(lines), Append(entries, current_entry), NoEducation)
                      ELSE EducationLoop(Tail(lines), entries, current_entry)
                 ELSE IF has_degree /\ complete
                 THEN EducationLoop(Tail(lines), Append(entries, current_entry),
                                    EducationLine(stripped, NoEducation))
                 ELSE EducationLoop(Tail(lines), entries, EducationLine(stripped, current_entry))

\* lines 606-669
_parse_education_section(section) ==
    Take(EducationLoop(split(strip(section), "\n"), <<>>, NoEducation), 3)

\* line 681: tech_pattern right after offset p of the lower-case line: where group 1 starts
TechPatternGroup(low, p) ==
    LET words == {w \in {<<"t","e","c","h","n","o","l","o","g","i","e","s">>, <<"t","e","c","h"," ","s","t","a","c","k">>, <<"b","u","i","l","t"," ","w","i","t","h">>, <<"t","o","o","l","s">>, <<"u","s","i","n","g">>} :
                     LitAt(low, p, w)}
    IN  IF words = {} THEN -1
        ELSE LET a == RunEnd(low, p + Len(CHOOSE w \in words : TRUE), Whitespace)
                 b == RunEnd(low, a + 1, Whitespace)
             IN  IF (LitAt(low, a, <<":">>) \/ LitAt(low, a, <<"-">>)) /\ b < Len(low)
                 THEN b
                 ELSE -1

\* line 694: re.search(tech_pattern, stripped, re.IGNORECASE): found, and group 1
SearchTech(stripped) ==
    LET low == lower(stripped)
        at == {p \in 0..Len(stripped) : TechPatternGroup(low, p) >= 0}
    IN  IF at = {} THEN [found |-> FALSE, group |-> <<>>]
        ELSE [found |-> TRUE,
              group |-> SubSeq(stripped, TechPatternGroup(low, Least(at)) + 1, Len(stripped))]

\* line 677
NoProject == [name |-> <<>>, technologies |-> <<>>, description |-> <<>>]

RECURSIVE ProjectsLoop(_, _, _, _)
\* lines 683-716: the lines that are left, entries, current_entry and desc_lines
ProjectsLoop(lines, entries, current_entry, desc_lines) ==
    LET named == current_entry.name # <<>>
        saved == IF named THEN Append(entries, Described(current_entry, desc_lines)) ELSE entries
    IN  IF lines = <<>> THEN saved
        ELSE LET stripped == strip(Head(lines))
                 tech_match == SearchTech(stripped)
             IN  IF stripped = <<>>
                 THEN IF named
                      THEN ProjectsLoop(Tail(lines), saved, NoProject, <<>>)
                      ELSE ProjectsLoop(Tail(lines), entries, current_entry, desc_lines)
                 ELSE IF tech_match.found /\ named
                 THEN ProjectsLoop(Tail(lines), entries,
                                   [current_entry EXCEPT !.technologies = strip(tech_match.group)],
                                   desc_lines)
                 ELSE IF stripped[1] \in {"-", "*"} /\ named
                 THEN ProjectsLoop(Tail(lines), entries, current_entry,
                                   Append(desc_lines, strip(lstrip(stripped, {"-", "*", " "}))))
                 ELSE IF ~named
                 THEN ProjectsLoop(Tail(lines), entries,
                          [current_entry EXCEPT !.name =
                              strip(lstrip(lstrip(stripped, Digits \cup {".", ")", "-", "*"}),
                                           Whitespace))],
                          desc_lines)
                 ELSE ProjectsLoop(Tail(lines), entries, current_entry,
                                   Append(desc_lines, stripped))

\* lines 672-718
_parse_projects_section(section) ==
    Take(ProjectsLoop(split(strip(section), "\n"), <<>>, NoProject, <<>>), 3)

-----------------------------------------------------------------------------
(* resume_analyzer.py: the fallback extraction of the resume details        *)

\* lines 466-474
section_headers ==
    {<<"p","r","o","f","e","s","s","i","o","n","a","l"," ","s","u","m","m","a","r","y">>, <<"s","u","m","m","a","r","y">>, <<"p","r","o","f","i","l","e">>, <<"o","b","j","e","c","t","i","v","e">>, <<"a","b","o","u","t"," ","m","e">>,
     <<"o","v","e","r","v","i","e","w">>, <<"w","o","r","k"," ","e","x","p","e","r","i","e","n","c","e">>, <<"e","x","p","e","r","i","e","n","c","e">>, <<"e","m","p","l","o","y","m","e","n","t"," ","h","i","s","t","o","r","y">>,
     <<"p","r","o","f","e","s","s","i","o","n","a","l"," ","e","x","p","e","r","i","e","n","c","e">>, <<"w","o","r","k"," ","h","i","s","t","o","r","y">>, <<"e","d","u","c","a","t","i","o","n">>, <<"a","c","a","d","e","m","i","c"," ","b","a","c","k","g","r","o","u","n","d">>,
     <<"q","u","a","l","i","f","i","c","a","t","i","o","n","s">>, <<"p","r","o","j","e","c","t","s">>, <<"p","e","r","s","o","n","a","l"," ","p","r","o","j","e","c","t","s">>, <<"a","c","a","d","e","m","i","c"," ","p","r","o","j","e","c","t","s">>,
     <<"k","e","y"," ","p","r","o","j","e","c","t","s">>, <<"s","k","i","l","l","s">>, <<"t","e","c","h","n","i","c","a","l"," ","s","k","i","l","l","s">>, <<"c","o","r","e"," ","c","o","m","p","e","t","e","n","c","i","e","s">>,
     <<"c","e","r","t","i","f","i","c","a","t","i","o","n","s">>, <<"a","w","a","r","d","s">>, <<"p","u","b","l","i","c","a","t","i","o","n","s">>, <<"r","e","f","e","r","e","n","c","e","s">>, <<"i","n","t","e","r","e","s","t","s">>,
     <<"h","o","b","b","i","e","s">>, <<"a","c","h","i","e","v","e","m","e","n","t","s">>, <<"v","o","l","u","n","t","e","e","r">>, <<"l","a","n","g","u","a","g","e","s">>}

\* line 484: the line as the header pattern sees it
HeaderText(line) == strip(rstrip(rstrip(strip(line), {":"}), {"-"}))

\* line 477: header_pattern matches the whole of stripped, whatever the case
IsHeader(stripped) ==
    LET low == lower(stripped)
        a0 == RunEnd(low, 0, Whitespace)
        a == RunEnd(low, a0, {"#"})
        b == IF a > a0 THEN RunEnd(low, a, Whitespace) ELSE a0
        rest == rstrip(SubSeq(low, b + 1, Len(low)), Whitespace)
    IN  \/ rest \in section_headers
        \/ /\ rest # <<>>
           /\ rest[Len(rest)] \in {":", "-"}
           /\ rstrip(SubSeq(rest, 1, Len(rest) - 1), Whitespace) \in section_headers

\* line 489
SectionName(stripped) == strip(rstrip(lstrip(lower(stripped), {"#"}), {"#"}))

\* sections[key] = value
Put(sections, key, value) ==
    [k \in DOMAIN sections \cup {key} |-> IF k = key THEN value ELSE sections[k]]

RECURSIVE SectionLoop(_, _, _, _)
\* lines 479-496: the lines that are left, sections, current_section (<<>> for None)
\* and current_content
SectionLoop(lines, sections, current_section, current_content) ==
    LET closed == IF current_section # <<>>
                  THEN Put(sections, current_section, strip(join(current_content, <<"\n">>)))
                  ELSE sections
    IN  IF lines = <<>> THEN closed
        ELSE IF IsHeader(HeaderText(Head(lines)))
        THEN SectionLoop(Tail(lines), closed, SectionName(HeaderText(Head(lines))), <<>>)
        ELSE IF current_section # <<>>
        THEN SectionLoop(Tail(lines), sections, current_section,
                         Append(current_content, Head(lines)))
        ELSE SectionLoop(Tail(lines), sections, current_section, current_content)

\* lines 479-496
Sections(resume_text) == SectionLoop(split(strip(resume_text), "\n"), << >>, <<>>, <<>>)

RECURSIVE FirstKey(_, _, _)
\* the first of keys that sections holds, with a text that is not empty when filled is asked
FirstKey(keys, sections, filled) ==
    IF keys = <<>> THEN <<>>
    ELSE IF Head(keys) \in DOMAIN sections /\ (~filled \/ sections[Head(keys)] # <<>>)
    THEN sections[Head(keys)]
    ELSE FirstKey(Tail(keys), sections, filled)

\* line 499
summary_keys ==
    <<<<"p","r","o","f","e","s","s","i","o","n","a","l"," ","s","u","m","m","a","r","y">>, <<"s","u","m","m","a","r","y">>, <<"p","r","o","f","i","l","e">>, <<"o","b","j","e","c","t","i","v","e">>, <<"a","b","o","u","t"," ","m","e">>,
      <<"o","v","e","r","v","i","e","w">>>>

\* line 506
experience_keys ==
    <<<<"w","o","r","k"," ","e","x","p","e","r","i","e","n","c","e">>, <<"e","x","p","e","r","i","e","n","c","e">>, <<"e","m","p","l","o","y","m","e","n","t"," ","h","i","s","t","o","r","y">>,
      <<"p","r","o","f","e","s","s","i","o","n","a","l"," ","e","x","p","e","r","i","e","n","c","e">>, <<"w","o","r","k"," ","h","i","s","t","o","r","y">>>>

\* line 516
education_keys == <<<<"e","d","u","c","a","t","i","o","n">>, <<"a","c","a","d","e","m","i","c"," ","b","a","c","k","g","r","o","u","n","d">>, <<"q","u","a","l","i","f","i","c","a","t","i","o","n","s">>>>

\* line 526
projects_keys ==
    <<<<"p","r","o","j","e","c","t","s">>, <<"p","e","r","s","o","n","a","l"," ","p","r","o","j","e","c","t","s">>, <<"a","c","a","d","e","m","i","c"," ","p","r","o","j","e","c","t","s">>, <<"k","e","y"," ","p","r","o","j","e","c","t","s">>>>

\* lines 421-448: the name, from the first five lines that are not blank
ContactName(resume_text) ==
    LET lines == split(strip(resume_text), "\n")
        clean_lines == SelectSeq([i \in 1..Len(lines) |-> strip(lines[i])], LAMBDA l : l # <<>>)
        named(l) == /\ "@" \notin Range(l)
                    /\ l[1] \notin Digits \cup {"+", "(", ")"}
                    /\ ~LitAt(l, 0, <<"h","t","t","p">>)
                    /\ Len(l) < 60
                    /\ WordCount(l) <= 5
        at == {i \in 1..Min(5, Len(clean_lines)) : named(clean_lines[i])}
    IN  IF at = {} THEN <<>> ELSE clean_lines[Least(at)]

\* lines 407-534; of the contact only the name is kept: the email, the phone and
\* the location are searched in the whole text and no section reads them
extract_resume_details_fallback(resume_text) ==
    LET sections == Sections(resume_text)
    IN  [contact |-> [name |-> ContactName(resume_text)],
         summary |-> Take(FirstKey(summary_keys, sections, TRUE), 500),
         experience |-> _parse_experience_section(FirstKey(experience_keys, sections, FALSE)),
         education |-> _parse_education_section(FirstKey(education_keys, sections, FALSE)),
         projects |-> _parse_projects_section(FirstKey(projects_keys, sections, FALSE))]

-----------------------------------------------------------------------------
(* Inputs of the match scorer *)

MaxResumeSkills == 3

MaxJobSkills == 3

ResumeSkillPool ==
    {<<"p","y","t","h","o","n">>, <<" ","P","y","t","h","o","n">>, <<"p","y">>, <<"s","q","l">>, <<"l","i","n","u","x">>, <<"d","o","c","k","e","r">>}

JobSkillPool ==
    {<<"p","y","t","h","o","n">>, <<"S","Q","L"," ">>, <<"s","q","l">>, <<"d","o","c","k","e","r">>, <<"d","j","a","n","g","o">>, <<"m","y","s","q","l">>}

SkillLists(pool, maxLen) ==
    {SetToSeq(S) : S \in {T \in SUBSET pool : Cardinality(T) <= maxLen}}

-----------------------------------------------------------------------------
(* Inputs of the composite search: the exchanges the providers may get *)

\* the most credentials JobSearchGlobalProvider is configured with when it is
\* run on its own
MaxKeys == 2

\* the most credentials it is configured with next to the other providers
MaxKeysComposite == 1

Providers == {"active", "global", "adzuna"}

Date(d) == [kind |-> "iso", day |-> d]

TextDate == [kind |-> "text", day |-> 0]

NoBody == [type |-> "none", items |-> <<>>, message |-> <<>>]

NotCalled == [kind |-> "none", status |-> 0, body |-> NoBody]

Timeout == [kind |-> "timeout", status |-> 0, body |-> NoBody]

Http(status, type, items, message) ==
    [kind |-> "http", status |-> status,
     body |-> [type |-> type, items |-> items, message |-> message]]

a1 == [title |-> <<"P","y","t","h","o","n"," ","D","e","v","e","l","o","p","e","r">>, url |-> <<"h","t","t","p","s",":","/","/","j","o","b","s",".","e","x","a","m","p","l","e","/","1">>,
       date_posted |-> Date(Today - 3), description |-> <<"P","y","t","h","o","n"," ","a","n","d"," ","S","Q","L">>]

a2 == [title |-> <<"J","a","v","a"," ","E","n","g","i","n","e","e","r">>, apply_url |-> <<"h","t","t","p","s",":","/","/","j","o","b","s",".","e","x","a","m","p","l","e","/","2">>,
       date_posted |-> TextDate]

a3 == [job_title |-> <<"D","a","t","a"," ","A","n","a","l","y","s","t">>, url |-> <<>>, date |-> Date(Today - 5)]

g1 == [job_title |-> <<"P","y","t","h","o","n"," ","D","e","v">>, company |-> <<"A","c","m","e">>,
       url |-> <<"h","t","t","p","s",":","/","/","j","o","b","s",".","e","x","a","m","p","l","e","/","1">>, date |-> Date(Today - 1)]

g2 == [title |-> <<"Q","A"," ","T","e","s","t","e","r">>, company_name |-> <<"B","e","t","a">>, slug |-> <<"q","a","-","t","e","s","t","e","r">>]

g3 == [title |-> <<"G","o"," ","D","e","v","e","l","o","p","e","r">>, link |-> <<"h","t","t","p","s",":","/","/","j","o","b","s",".","e","x","a","m","p","l","e","/","3">>,
       posted_date |-> Date(Today - 3)]

g4 == [title |-> <<"O","f","f","i","c","e"," ","C","l","e","r","k">>, company |-> <<"D","e","l","t","a">>, date |-> Date(Today - 2)]

z1 == ("title" :> <<"S","Q","L"," ","A","d","m","i","n">>) @@ ("company.display_name" :> <<"G","a","m","m","a">>) @@
      ("redirect_url" :> <<"h","t","t","p","s",":","/","/","j","o","b","s",".","e","x","a","m","p","l","e","/","4">>) @@ ("created" :> Date(Today - 3)) @@
      ("description" :>
         <<"j","a","v","a","s","c","r","i","p","t"," ","t","y","p","e","s","c","r","i","p","t"," ","p","o","s","t","g","r","e","s","q","l"," ","m","y","s","q","l"," ","n","o","d","e","j","s"," ","r","e","a","c","t"," ","n","a","t","i","v","e"," ","r","e","s","t"," ","a","p","i"," ","u","n","i","t"," ","t","e","s","t","i","n","g"," ","g","i","t","h","u","b"," ","a","c","t","i","o","n","s">>)

z2 == [title |-> <<"C","l","e","r","k">>, created |-> EmptyDate]

ActiveExchanges ==
    {Timeout,
     Http(500, "none", <<>>, <<>>),
     Http(200, "invalid", <<>>, <<>>),
     Http(200, "list", <<>>, <<>>),
     Http(200, "list", <<a1>>, <<>>),
     Http(200, "list", <<a2, a1, a1>>, <<>>),
     Http(200, "data", <<a3, a2>>, <<>>)}

AdzunaExchanges ==
    {Timeout,
     Http(401, "none", <<>>, <<>>),
     Http(200, "results", <<>>, <<>>),
     Http(200, "results", <<z1>>, <<>>),
     Http(200, "results", <<z2, z1>>, <<>>)}

GlobalSearchExchanges ==
    {Timeout,
     Http(403, "none", <<>>, <<>>),
     Http(200, "data", <<>>, <<>>),
     Http(200, "list", <<g1, g2>>, <<>>),
     Http(200, "list", <<g4, g2>>, <<>>)}

GlobalLatestExchanges ==
    {Timeout,
     Http(429, "none", <<>>, <<>>),
     Http(200, "message", <<>>, <<"M","o","n","t","h","l","y"," ","q","u","o","t","a"," ","E","X","C","E","E","D","E","D">>),
     Http(200, "message", <<>>, <<"n","o"," ","j","o","b","s">>),
     Http(200, "jobs", <<g3>>, <<>>)}

SearchArgs ==
    {[keywords |-> <<<<"p","y","t","h","o","n">>>>, max_results |-> 10],
     [keywords |-> <<>>, max_results |-> 2]}

-----------------------------------------------------------------------------
(* Inputs of the fallback extraction: documents written section by section  *)

MaxExperience == 6

MaxEducation == 4

MaxProjects == 4

\* the decimal digit i as text
Digit(i) == <<Alphabet[Ord["0"] + i]>>

\* the i-th position held: a header line with the dates, then what was done
ExperienceText(i) ==
    <<"D","e","v">> \o Digit(i) \o <<" ","a","t"," ","A","c","m","e">> \o Digit(i) \o <<","," ","2","0","1">> \o Digit(i)
        \o <<" ","-"," ","2","0","2">> \o Digit(i) \o <<"\n","B","u","i","l","t"," ","t","h","i","n","g"," ">> \o Digit(i) \o <<".","\n">>

\* the i-th degree: the degree with its year, then the institution
EducationText(i) ==
    <<"B","S","c"," ","C","o","u","r","s","e">> \o Digit(i) \o <<","," ","2","0","0">> \o Digit(i) \o <<"\n","U","n","i","v","e","r","s","i","t","y"," ">> \o Digit(i)
        \o <<"\n">>

\* the i-th project: its name, its tools, a bullet, a blank line
ProjectText(i) ==
    <<"P","r","o","j","e","c","t"," ">> \o Digit(i) \o <<"\n","T","o","o","l","s",":"," ","P","y","t","h","o","n","\n","-"," ","B","u","i","l","t"," ","p","a","r","t"," ">> \o Digit(i) \o <<"\n","\n">>

RECURSIVE Entries(_, _, _)
\* the entries from the i-th to the n-th of one kind of section
Entries(kind, i, n) ==
    IF i > n THEN <<>>
    ELSE (CASE kind = "experience" -> ExperienceText(i)
            [] kind = "education" -> EducationText(i)
            [] kind = "projects" -> ProjectText(i))
         \o Entries(kind, i + 1, n)

\* the header line of a section in one of the two styles
HeaderLine(kind, style) ==
    CASE kind = "experience" /\ style = "plain" -> <<"E","x","p","e","r","i","e","n","c","e","\n">>
      [] kind = "experience" /\ style = "marked" -> <<"#","#"," ","W","O","R","K"," ","E","X","P","E","R","I","E","N","C","E","\n">>
      [] kind = "education" /\ style = "plain" -> <<"E","d","u","c","a","t","i","o","n","\n">>
      [] kind = "education" /\ style = "marked" -> <<"E","d","u","c","a","t","i","o","n",":","\n">>
      [] kind = "projects" /\ style = "plain" -> <<"P","r","o","j","e","c","t","s","\n">>
      [] kind = "projects" /\ style = "marked" -> <<"P","r","o","j","e","c","t","s"," ","-","\n">>

\* a section with n entries; none at all when n is -1
SectionText(kind, style, n) ==
    IF n < 0 THEN <<>> ELSE HeaderLine(kind, style) \o Entries(kind, 1, n)

Shapes ==
    [style : {"plain", "marked"}, experience : -1..MaxExperience,
     education : -1..MaxEducation, projects : -1..MaxProjects]

\* the document of a shape: the name, a summary, then the sections
Document(shape) ==
    <<"J","a","n","e"," ","D","o","e","\n","S","u","m","m","a","r","y","\n","E","n","g","i","n","e","e","r"," ","o","f"," ","t","h","i","n","g","s",".","\n">>
        \o SectionText("experience", shape.style, shape.experience)
        \o SectionText("education", shape.style, shape.education)
        \o SectionText("projects", shape.style, shape.projects)

\* a position written on three lines
resume_acme ==
    <<"E","x","p","e","r","i","e","n","c","e","\n","S","o","f","t","w","a","r","e"," ","E","n","g","i","n","e","e","r"," ","a","t"," ","A","c","m","e"," ","C","o","r","p","\n","J","a","n"," ","2","0","2","0"," ","-"," ","P","r","e","s","e","n","t","\n","B","u","i","l","t"," ","t","h","i","n","g","s",".">>

\* positions written on three lines each with a blank line between them
resume_blocks ==
    <<"E","x","p","e","r","i","e","n","c","e","\n","E","n","g","i","n","e","e","r"," ","a","t"," ","A","c","m","e","\n","J","a","n"," ","2","0","2","0"," ","-"," ","P","r","e","s","e","n","t","\n","B","u","i","l","t"," ","t","h","i","n","g","s",".","\n","\n","A","n","a","l","y","s","t"," ","a","t"," ","B","i","r","c","h","\n">>
        \o <<"M","a","r"," ","2","0","1","8"," ","-"," ","D","e","c"," ","2","0","1","9","\n","C","o","u","n","t","e","d"," ","t","h","i","n","g","s",".","\n","\n","E","d","u","c","a","t","i","o","n","\n","M","I","T","\n","B","S","c"," ","P","h","y","s","i","c","s"," ","2","0","1","7">>

\* no section at all
resume_bare == <<"J","a","n","e"," ","D","o","e","\n","j","a","n","e"," ","a","t"," ","e","x","a","m","p","l","e"," ","d","o","t"," ","o","r","g">>

\* two degrees, no institution and no year
resume_degrees == <<"E","d","u","c","a","t","i","o","n","\n","B","a","c","h","e","l","o","r"," ","o","f"," ","S","c","i","e","n","c","e","\n","M","a","s","t","e","r"," ","o","f"," ","S","c","i","e","n","c","e">>

\* a degree and two institutions
resume_schools == <<"E","d","u","c","a","t","i","o","n","\n","B","S","c"," ","P","h","y","s","i","c","s"," ","2","0","1","7","\n","S","t","a","n","f","o","r","d"," ","U","n","i","v","e","r","s","i","t","y","\n","B","o","s","t","o","n"," ","C","o","l","l","e","g","e">>

\* dates on a line of their own, a line under them, then a position with its own line
resume_orphan ==
    <<"E","x","p","e","r","i","e","n","c","e","\n","2","0","1","9"," ","-"," ","2","0","2","0","\n","O","r","p","h","a","n"," ","l","i","n","e","\n","D","e","v"," ","a","t"," ","A","c","m","e"," ","2","0","2","0"," ","-"," ","2","0","2","1","\n","O","w","n"," ","l","i","n","e">>

GivenTexts ==
    {<<>>, resume_acme, resume_blocks, resume_bare, resume_degrees, resume_schools,
     resume_orphan}

Given == [style |-> "given", experience |-> -1, education |-> -1, projects |-> -1]

-----------------------------------------------------------------------------
(* Idle components *)

MatchIdle ==
    /\ m_pc = "idle"
    /\ m_resume = <<>>
    /\ m_job = <<>>
    /\ m_result = None

SearchIdle ==
    /\ s_pc = "idle"
    /\ s_configured = {}
    /\ s_nkeys = 0
    /\ s_keywords = <<>>
    /\ s_max_results = 0
    /\ s_future = [p \in Providers |-> "none"]
    /\ s_exchange = [p \in Providers |-> NotCalled]
    /\ s_returned = [p \in Providers |-> [raised |-> FALSE, jobs |-> <<>>]]
    /\ g_log = <<>>
    /\ s_order = <<>>
    /\ s_all_jobs = <<>>
    /\ s_result = <<>>
    /\ s_exit = "none"

\* inputs of the ranking

\* the largest limit rank_jobs is called with
MaxLimit == 3

NoAnalysis == [present |-> FALSE, technical_skills |-> <<>>, soft_skills |-> <<>>]

Analysis(technical, soft) ==
    [present |-> TRUE, technical_skills |-> technical, soft_skills |-> soft]

Analyses ==
    {NoAnalysis,
     Analysis(<<>>, <<>>),
     Analysis(<<<<"p","y","t","h","o","n">>, <<"s","q","l">>>>, <<<<"t","e","a","m","w","o","r","k">>>>),
     Analysis(<<<<"j","a","v","a","s","c","r","i","p","t">>, <<"r","e","a","c","t">>>>, <<>>)}

j1 == [id |-> 1, title |-> <<"B","a","c","k","e","n","d"," ","D","e","v","e","l","o","p","e","r">>, company |-> <<"A","c","m","e">>,
       description |-> <<"A","P","I","s">>, required_skills |-> <<<<"P","y","t","h","o","n">>, <<"s","q","l">>, <<"d","o","c","k","e","r">>>>,
       apply_link |-> <<"h","t","t","p","s",":","/","/","a","c","m","e",".","e","x","a","m","p","l","e","/","1">>, posted_date |-> Date(Today - 1)]

j2 == [id |-> 2, title |-> <<"F","r","o","n","t","e","n","d"," ","D","e","v","e","l","o","p","e","r">>, company |-> <<"B","e","t","a">>,
       description |-> <<"U","I">>, required_skills |-> <<<<"r","e","a","c","t">>, <<"j","a","v","a","s","c","r","i","p","t">>>>,
       apply_link |-> <<"h","t","t","p","s",":","/","/","b","e","t","a",".","e","x","a","m","p","l","e","/","2">>, posted_date |-> Date(Today - 2)]

j3 == [id |-> 3, title |-> <<"D","a","t","a"," ","E","n","g","i","n","e","e","r">>, company |-> <<"G","a","m","m","a">>,
       description |-> <<"E","T","L">>, required_skills |-> <<<<"s","q","l">>, <<"p","y","t","h","o","n">>, <<"l","i","n","u","x">>>>,
       apply_link |-> <<"h","t","t","p","s",":","/","/","g","a","m","m","a",".","e","x","a","m","p","l","e","/","3">>, posted_date |-> Date(Today - 3)]

JobTables == {<<>>, <<j1, j2, j3>>}

RecommendationTables == {<<>>, <<[job_id |-> 2, match_score |-> 200]>>}

RankIdle ==
    /\ r_pc = "idle"
    /\ r_analysis = NoAnalysis
    /\ r_limit = 0
    /\ db_jobs = <<>>
    /\ db_recs = <<>>
    /\ r_matches = <<>>
    /\ r_top = <<>>

\* inputs of the analyzer

\* the number of filler words of the long resume
FillerWords == 300

\* n words that are no skill and no keyword, each after a space
Filler(n) == [i \in 1..(2 * n) |-> IF i % 2 = 1 THEN " " ELSE "x"]

resume_plain == <<"H","e","l","l","o"," ","w","o","r","l","d">>

resume_cpp == <<"C","+","+"," ","d","e","v","e","l","o","p","e","r",","," ","5"," ","y","e","a","r","s"," ","o","f"," ","e","x","p","e","r","i","e","n","c","e",".","\n","S","k","i","l","l","s",":"," ","C","#",","," ",".","N","E","T",","," ","J","a","v","a">>

resume_web == <<"K","n","o","w","s"," ","J","a","v","a","S","c","r","i","p","t"," ","a","n","d"," ","P","o","s","t","g","r","e","S","Q","L",";"," ","b","u","i","l","t"," ","s","i","t","e","s"," ","o","n"," ","A","S","P",".","N","E","T">>

resume_ops == <<"D","o","c","k","e","r"," ","a","n","d"," ","K","u","b","e","r","n","e","t","e","s"," ","a","d","m","i","n","\n","E","x","p","e","r","i","e","n","c","e",":"," ","3"," ","y","r","s">>

resume_rich ==
    <<"S","u","m","m","a","r","y",":"," ","S","e","n","i","o","r"," ","e","n","g","i","n","e","e","r"," ","w","h","o"," ","i","m","p","r","o","v","e","d"," ","p","r","o","j","e","c","t"," ","d","e","l","i","v","e","r","y"," ","a","n","d"," ","i","s"," ","c","e","r","t","i","f","i","e","d"," ","i","n"," ","c","l","o","u","d"," ","p","l","a","t","f","o","r","m","s",".","\n","\n","S","k","i","l","l","s",":"," ","P","y","t","h","o","n"," ","J","a","v","a"," ","S","Q","L"," ","G","i","t"," ","D","o","c","k","e","r"," ","K","u","b","e","r","n","e","t","e","s"," ","A","W","S"," ","R","e","a","c","t","\n","L","e","a","d","e","r","s","h","i","p",","," ","c","o","m","m","u","n","i","c","a","t","i","o","n",","," ","t","e","a","m","w","o","r","k",","," ","m","e","n","t","o","r","i","n","g","\n","D","e","v","e","l","o","p","e","d",","," ","d","e","s","i","g","n","e","d",","," ","i","m","p","l","e","m","e","n","t","e","d",","," ","m","a","n","a","g","e","d"," ","a","n","d"," ","w","o","r","k","e","d"," ","a","t"," ","a"," ","u","n","i","v","e","r","s","i","t","y",";"," ","m","a","s","t","e","r"," ","d","e","g","r","e","e",","," ","c","o","l","l","e","g","e">>

resume_full ==
    resume_rich \o <<"\n","A","l","s","o"," ","J","a","v","a","S","c","r","i","p","t"," ","H","T","M","L"," ","C","S","S"," ","L","i","n","u","x"," ","B","a","s","h"," ","R","e","d","i","s"," ","K","a","f","k","a",","," ","c","r","e","a","t","i","v","i","t","y",","," ","l","e","d"," ","a"," ","t","e","a","m",","," ","b","a","c","h","e","l","o","r",","," ","1","0","+"," ","y","e","a","r","s"," ","e","x","p","e","r","i","e","n","c","e">>
    \o Filler(FillerWords)

\* one keyword of each bucket several times
resume_repeat == <<"W","o","r","k","e","d"," ","a","t"," ","A","c","m","e","."," ","W","o","r","k","e","d"," ","a","t"," ","B","i","r","c","h","."," ","W","o","r","k","e","d"," ","l","a","t","e",";"," ","d","e","g","r","e","e"," ","a","f","t","e","r"," ","d","e","g","r","e","e",".">>

ResumeTexts ==
    {<<>>, resume_plain, resume_cpp, resume_web, resume_ops, resume_rich, resume_full,
     resume_repeat}

Raised == [raised |-> TRUE, text |-> <<>>]

Response(text) == [raised |-> FALSE, text |-> text]

\* what generate_content may do in generate_intelligent_summary
SummaryOutcomes ==
    {Raised, Response(<<" "," ">>), Response(<<" ","S","e","a","s","o","n","e","d"," ","e","n","g","i","n","e","e","r"," ","w","i","t","h"," ","a"," ","r","e","c","o","r","d"," ","o","f"," ","d","e","l","i","v","e","r","y",".","\n">>)}

\* what generate_content may do in analyze_strengths_weaknesses
StrengthsWeaknessesOutcomes ==
    {Raised,
     Response(<<"I"," ","c","a","n","n","o","t"," ","h","e","l","p"," ","w","i","t","h"," ","t","h","a","t",".">>),
     Response(<<"S","T","R","E","N","G","T","H","S",":","\n","-"," ","S","t","r","o","n","g"," ","P","y","t","h","o","n"," ","b","a","c","k","g","r","o","u","n","d","\n","-"," ","G","o","o","d","\n","\n","A","R","E","A","S"," ","F","O","R"," ","I","M","P","R","O","V","E","M","E","N","T",":","\n","-"," ","N","o"," ","m","e","t","r","i","c","s"," ","i","n"," ","t","h","e"," ","b","u","l","l","e","t"," ","p","o","i","n","t","s">>),
     Response(<<"*","*","S","t","r","e","n","g","t","h","s","*","*","\n","-"," ","C","l","e","a","r"," ","r","e","c","o","r","d"," ","o","f"," ","s","h","i","p","p","e","d"," ","p","r","o","j","e","c","t","s">>)}

\* what generate_content may do in generate_personalized_suggestions
SuggestionsOutcomes ==
    {Raised,
     Response(<<"-"," ","T","o","o"," ","s","h","o","r","t","\n","N","o"," ","b","u","l","l","e","t","s"," ","h","e","r","e">>),
     Response(<<"H","e","r","e"," ","y","o","u"," ","g","o",":","\n","-"," ","A","d","d"," ","n","u","m","b","e","r","s"," ","t","o"," ","e","a","c","h"," ","b","u","l","l","e","t"," ","p","o","i","n","t","\n","*"," ","M","o","v","e"," ","t","h","e"," ","s","k","i","l","l","s"," ","s","e","c","t","i","o","n"," ","t","o"," ","t","h","e"," ","t","o","p">>)}

AnalyzeIdle ==
    /\ a_pc = "idle"
    /\ a_text = <<>>
    /\ a_configured = FALSE
    /\ a_tech = {}
    /\ a_soft = {}
    /\ a_summary = <<>>
    /\ a_strengths = <<>>
    /\ a_weaknesses = <<>>
    /\ a_score = 0
    /\ a_missing = <<>>
    /\ a_suggestions = <<>>
    /\ a_calls = <<>>
    /\ a_first = <<>>

ParseIdle ==
    /\ p_pc = "idle"
    /\ p_text = <<>>
    /\ p_shape = <<>>
    /\ p_result = <<>>

SaveIdle ==
    /\ t_pc = "idle"
    /\ t_new = <<>>
    /\ t_old = <<>>
    /\ t_work = <<>>
    /\ t_next = 0
    /\ rd_limit = 0
    /\ rd_result = <<>>

UploadIdle ==
    /\ u_pc = "idle"
    /\ u_user = 0
    /\ u_file = <<>>
    /\ u_report = <<>>
    /\ u_resume_id = 0
    /\ u_resumes = <<>>
    /\ u_analysis = <<>>
    /\ u_clock = 0
    /\ u_latest = <<>>

-----------------------------------------------------------------------------
(* The match scorer as a process *)

MatchInit ==
    /\ m_pc = "call"
    /\ m_resume \in SkillLists(ResumeSkillPool, MaxResumeSkills)
    /\ m_job \in SkillLists(JobSkillPool, MaxJobSkills)
    /\ m_result = None
    /\ SearchIdle
    /\ RankIdle
    /\ AnalyzeIdle
    /\ ParseIdle
    /\ SaveIdle /\ UploadIdle

MatchCall ==
    /\ m_pc = "call"
    /\ m_result' = calculate_skill_match(m_resume, m_job)
    /\ m_pc' = "done"
    /\ UNCHANGED <<m_resume, m_job>>
    /\ UNCHANGED <<s_vars, r_vars, x_vars>>

MatchNext == MatchCall

SpecMatch == MatchInit /\ [][MatchNext]_vars

-----------------------------------------------------------------------------
(* The composite search as a process: the calling thread and one worker per *)
(* configured provider                                                      *)

\* JobSearchAPI.__init__: the providers that are configured; nothing is in flight
SearchConfigured(maxKeys) ==
    /\ \E active \in BOOLEAN, adzuna \in BOOLEAN, nkeys \in 0..maxKeys :
          /\ s_nkeys = nkeys
          /\ s_configured = (IF active THEN {"active"} ELSE {})
                            \cup (IF nkeys > 0 THEN {"global"} ELSE {})
                            \cup (IF adzuna THEN {"adzuna"} ELSE {})
    /\ s_future = [p \in Providers |-> "none"]
    /\ s_exchange = [p \in Providers |-> NotCalled]
    /\ s_returned = [p \in Providers |-> [raised |-> FALSE, jobs |-> <<>>]]
    /\ g_log = <<>>
    /\ s_order = <<>>
    /\ s_all_jobs = <<>>
    /\ s_result = <<>>
    /\ s_exit = "none"

\* a call of search_jobs with its arguments
SearchStart(maxKeys, args) ==
    /\ SearchConfigured(maxKeys)
    /\ s_pc = "call"
    /\ \E a \in args : s_keywords = a.keywords /\ s_max_results = a.max_results

SearchInit ==
    MatchIdle /\ RankIdle /\ AnalyzeIdle /\ ParseIdle /\ SaveIdle /\ UploadIdle
    /\ SearchStart(MaxKeysComposite, SearchArgs)

\* line 401
jobs_per_provider == Max(5, s_max_results)

\* lines 397-398: no provider is configured
SearchUnconfigured ==
    /\ s_pc = "call"
    /\ s_configured = {}
    /\ s_result' = _get_mock_jobs(s_keywords)
    /\ s_exit' = "unconfigured"
    /\ s_pc' = "done"
    /\ UNCHANGED <<s_configured, s_nkeys, s_keywords, s_max_results, s_future,
                   s_exchange, s_returned, g_log, s_order, s_all_jobs>>
    /\ UNCHANGED <<m_vars, r_vars, x_vars>>

\* lines 403-407: one task per provider is submitted; the pool has 3 workers
SearchSubmit ==
    /\ s_pc = "call"
    /\ s_configured # {}
    /\ s_future' = [p \in Providers |-> IF p \in s_configured THEN "running" ELSE "none"]
    /\ s_pc' = "collect"
    /\ UNCHANGED <<s_configured, s_nkeys, s_keywords, s_max_results, s_exchange,
                   s_returned, g_log, s_order, s_all_jobs, s_result, s_exit>>
    /\ UNCHANGED <<m_vars, r_vars, x_vars>>

\* the worker of ActiveJobsDBProvider.search_jobs
ActiveRun ==
    /\ s_future["active"] = "running"
    /\ \E resp \in ActiveExchanges :
          /\ s_exchange' = [s_exchange EXCEPT !["active"] = resp]
          /\ s_returned' = [s_returned EXCEPT !["active"] =
                [raised |-> FALSE,
                 jobs |-> ActiveSearchJobs(resp, s_keywords, jobs_per_provider)]]
    /\ s_future' = [s_future EXCEPT !["active"] = "done"]
    /\ UNCHANGED <<s_pc, s_configured, s_nkeys, s_keywords, s_max_results, g_log,
                   s_order, s_all_jobs, s_result, s_exit>>
    /\ UNCHANGED <<m_vars, r_vars, x_vars>>

\* the worker of AdzunaJobSearch.search_jobs
AdzunaRun ==
    /\ s_future["adzuna"] = "running"
    /\ \E resp \in AdzunaExchanges :
          /\ s_exchange' = [s_exchange EXCEPT !["adzuna"] = resp]
          /\ s_returned' = [s_returned EXCEPT !["adzuna"] =
                [raised |-> FALSE,
                 jobs |-> AdzunaSearchJobs(resp, s_keywords, jobs_per_provider)]]
    /\ s_future' = [s_future EXCEPT !["adzuna"] = "done"]
    /\ UNCHANGED <<s_pc, s_configured, s_nkeys, s_keywords, s_max_results, g_log,
                   s_order, s_all_jobs, s_result, s_exit>>
    /\ UNCHANGED <<m_vars, r_vars, x_vars>>

\* the worker of JobSearchGlobalProvider.search_jobs: one turn of the loop of
\* lines 136-145 with the next credential, and lines 147-148 after the last
GlobalTryKey ==
    /\ s_future["global"] = "running"
    /\ Len(g_log) < s_nkeys
    /\ \E search \in GlobalSearchExchanges,
          latest \in GlobalLatestExchanges \cup {NotCalled} :
          /\ SearchAnswers(search) <=> latest = NotCalled
          /\ LET result == SearchWithKey(search, latest, jobs_per_provider)
             IN  /\ g_log' = Append(g_log, [key |-> Len(g_log) + 1, search |-> search,
                                            latest |-> latest, result |-> result])
                 /\ IF KeyAccepted(result)
                    THEN /\ s_returned' = [s_returned EXCEPT !["global"] =
                                              [raised |-> FALSE, jobs |-> result.jobs]]
                         /\ s_future' = [s_future EXCEPT !["global"] = "done"]
                    ELSE IF Len(g_log) + 1 = s_nkeys
                    THEN /\ s_returned' = [s_returned EXCEPT !["global"] =
                                              [raised |-> FALSE, jobs |-> <<>>]]
                         /\ s_future' = [s_future EXCEPT !["global"] = "done"]
                    ELSE UNCHANGED <<s_returned, s_future>>
    /\ UNCHANGED <<s_pc, s_configured, s_nkeys, s_keywords, s_max_results, s_exchange,
                   s_order, s_all_jobs, s_result, s_exit>>
    /\ UNCHANGED <<m_vars, r_vars, x_vars>>

\* lines 409-414: as_completed hands over a finished future
Collect ==
    /\ s_pc = "collect"
    /\ \E p \in Providers :
          /\ s_future[p] = "done"
          /\ s_all_jobs' = CollectFuture(s_all_jobs, s_returned[p])
          /\ s_future' = [s_future EXCEPT ![p] = "collected"]
          /\ s_order' = Append(s_order, p)
    /\ UNCHANGED <<s_pc, s_configured, s_nkeys, s_keywords, s_max_results, s_exchange,
                   s_returned, g_log, s_result, s_exit>>
    /\ UNCHANGED <<m_vars, r_vars, x_vars>>

\* lines 416-426, once every future has been handed over
Finish ==
    /\ s_pc = "collect"
    /\ \A p \in s_configured : s_future[p] = "collected"
    /\ s_result' = FinalJobs(s_all_jobs, s_keywords, s_max_results)
    /\ s_exit' = IF Deduplicate(s_all_jobs) = <<>> THEN "fallback" ELSE "live"
    /\ s_pc' = "done"
    /\ UNCHANGED <<s_configured, s_nkeys, s_keywords, s_max_results, s_future,
                   s_exchange, s_returned, g_log, s_order, s_all_jobs>>
    /\ UNCHANGED <<m_vars, r_vars, x_vars>>

SearchNext ==
    \/ SearchUnconfigured
    \/ SearchSubmit
    \/ ActiveRun
    \/ AdzunaRun
    \/ GlobalTryKey
    \/ Collect
    \/ Finish

SpecSearch == SearchInit /\ [][SearchNext]_vars

\* JobSearchGlobalProvider as the only configured provider
KeysInit ==
    /\ MatchIdle
    /\ RankIdle
    /\ AnalyzeIdle
    /\ ParseIdle
    /\ SaveIdle /\ UploadIdle
    /\ SearchStart(MaxKeys, SearchArgs)
    /\ s_configured = {"global"}

KeysNext ==
    \/ SearchSubmit
    \/ GlobalTryKey
    \/ Collect
    \/ Finish

SpecKeys == KeysInit /\ [][KeysNext]_vars

-----------------------------------------------------------------------------
(* rank_jobs as a process: the call, the search it makes, the ranking *)

RankInit ==
    /\ MatchIdle
    /\ AnalyzeIdle
    /\ ParseIdle
    /\ SaveIdle /\ UploadIdle
    /\ SearchConfigured(0)
    /\ s_configured \in {{}, {"active", "adzuna"}}
    /\ s_pc = "idle"
    /\ s_keywords = <<>>
    /\ s_max_results = 0
    /\ r_pc = "call"
    /\ r_analysis \in Analyses
    /\ r_limit \in 1..MaxLimit
    /\ db_jobs \in JobTables
    /\ db_recs \in RecommendationTables
    /\ r_matches = <<>>
    /\ r_top = <<>>

\* line 132
user_skills == r_analysis.technical_skills \o r_analysis.soft_skills

\* lines 127-129: no analysis is stored for the user
RankNoAnalysis ==
    /\ r_pc = "call"
    /\ ~r_analysis.present
    /\ r_top' = <<>>
    /\ r_pc' = "done"
    /\ UNCHANGED <<r_analysis, r_limit, db_jobs, db_recs, r_matches>>
    /\ UNCHANGED <<m_vars, s_vars, x_vars>>

\* lines 138-141: search_jobs is called with the top skills as keywords
RankSearch ==
    /\ r_pc = "call"
    /\ r_analysis.present
    /\ s_configured # {} /\ user_skills # <<>>
    /\ s_pc = "idle"
    /\ s_keywords' = IF r_analysis.technical_skills # <<>>
                     THEN Take(r_analysis.technical_skills, 5) ELSE Take(user_skills, 5)
    /\ s_max_results' = r_limit * 2
    /\ s_pc' = "call"
    /\ r_pc' = "search"
    /\ UNCHANGED <<s_configured, s_nkeys, s_future, s_exchange, s_returned, g_log,
                   s_order, s_all_jobs, s_result, s_exit>>
    /\ UNCHANGED <<r_analysis, r_limit, db_jobs, db_recs, r_matches, r_top>>
    /\ UNCHANGED <<m_vars, x_vars>>

RECURSIVE FormatLiveJobs(_)
\* lines 147-167: the lists formatted_jobs may be, one choice of extracted
\* skills per posting
FormatLiveJobs(live_jobs) ==
    IF live_jobs = <<>> THEN {<<>>}
    ELSE {<<FormatLiveJob(Head(live_jobs), job_skills)>> \o rest :
             job_skills \in extract_skills_from_description(Head(live_jobs).description),
             rest \in FormatLiveJobs(Tail(live_jobs))}

\* lines 180-222 on all_jobs: scoring, sorting, the top N, the saving
RankAndSave(all_jobs) ==
    LET job_matches == [i \in DOMAIN all_jobs |-> ScoreJob(all_jobs[i], user_skills)]
        top_recommendations == Take(RankSort(job_matches), r_limit)
    IN  /\ r_matches' = job_matches
        /\ r_top' = top_recommendations
        /\ db_recs' = SaveIfAny(db_recs, RecommendationsToSave(top_recommendations))

\* lines 144-168 and 180-222: search_jobs has returned postings
RankLive ==
    /\ r_pc = "search"
    /\ s_pc = "done"
    /\ s_result # <<>>
    /\ \E formatted_jobs \in FormatLiveJobs(s_result) : RankAndSave(formatted_jobs)
    /\ r_pc' = "done"
    /\ UNCHANGED <<r_analysis, r_limit, db_jobs>>
    /\ UNCHANGED <<m_vars, s_vars, x_vars>>

\* lines 169-178 and 180-222: no live posting, the rows of table jobs are ranked
RankDatabase ==
    /\ \/ r_pc = "call" /\ r_analysis.present /\ ~(s_configured # {} /\ user_skills # <<>>)
       \/ r_pc = "search" /\ s_pc = "done" /\ s_result = <<>>
    /\ RankAndSave([i \in DOMAIN db_jobs |-> FormatDatabaseJob(db_jobs[i])])
    /\ r_pc' = "done"
    /\ UNCHANGED <<r_analysis, r_limit, db_jobs>>
    /\ UNCHANGED <<m_vars, s_vars, x_vars>>

RankNext ==
    \/ RankNoAnalysis
    \/ RankSearch
    \/ SearchSubmit
    \/ ActiveRun
    \/ AdzunaRun
    \/ Collect
    \/ Finish
    \/ RankLive
    \/ RankDatabase

SpecRank == RankInit /\ [][RankNext]_vars

-----------------------------------------------------------------------------
(* ResumeAnalyzer.analyze as a process: one step per statement of lines     *)
(* 23-40, a call of the collaborator coming back within its step            *)

AnalyzeInit ==
    /\ a_pc = "call"
    /\ a_text \in ResumeTexts
    /\ a_configured \in BOOLEAN
    /\ a_tech = {}
    /\ a_soft = {}
    /\ a_summary = <<>>
    /\ a_strengths = <<>>
    /\ a_weaknesses = <<>>
    /\ a_score = 0
    /\ a_missing = <<>>
    /\ a_suggestions = <<>>
    /\ a_calls = <<>>
    /\ a_first = <<>>
    /\ MatchIdle /\ SearchIdle /\ RankIdle /\ ParseIdle /\ SaveIdle /\ UploadIdle

\* self.text, line 16
self_text == lower(a_text)

\* an entry of the log of collaborator calls
Call(method, outcome) == [method |-> method, outcome |-> outcome]

\* lines 85-86, 134-135, 190-191, 296-297: the collaborator's answer when it
\* is not empty, the heuristic's otherwise
OrFallback_NoFallback(answer, fallback) == answer

\* lines 85-86, 134-135, 190-191, 296-297: the collaborator's answer when it
\* is not empty, the heuristic's otherwise
OrFallback(answer, fallback) == IF answer # <<>> THEN answer ELSE fallback

\* lines 23-24
AnalyzeExtract ==
    /\ a_pc = "call"
    /\ a_tech' = _extract_technical_skills(self_text)
    /\ a_soft' = _extract_soft_skills(self_text)
    /\ a_pc' = "summary"
    /\ UNCHANGED <<a_text, a_configured, a_summary, a_strengths, a_weaknesses, a_score,
                   a_missing, a_suggestions, a_calls, a_first>>
    /\ UNCHANGED <<m_vars, s_vars, r_vars, p_vars, t_vars, u_vars>>

\* line 27, _generate_summary
AnalyzeSummary ==
    /\ a_pc = "summary"
    /\ IF a_configured
       THEN \E outcome \in SummaryOutcomes :
               LET ai_summary == generate_intelligent_summary(outcome)
               IN  /\ a_summary' = OrFallback(ai_summary, SummaryFallback(a_text, self_text))
                   /\ a_calls' = Append(a_calls, Call("summary", outcome))
       ELSE /\ a_summary' = SummaryFallback(a_text, self_text)
            /\ a_calls' = a_calls
    /\ a_pc' = "strengths"
    /\ UNCHANGED <<a_text, a_configured, a_tech, a_soft, a_strengths, a_weaknesses, a_score,
                   a_missing, a_suggestions, a_first>>
    /\ UNCHANGED <<m_vars, s_vars, r_vars, p_vars, t_vars, u_vars>>

\* line 30, _identify_strengths
AnalyzeStrengths ==
    /\ a_pc = "strengths"
    /\ IF a_configured
       THEN \E outcome \in StrengthsWeaknessesOutcomes :
               LET ai_result == analyze_strengths_weaknesses(outcome)
               IN  /\ a_strengths' = OrFallback(ai_result.strengths, StrengthsFallback(self_text, a_tech, a_soft))
                   /\ a_calls' = Append(a_calls, Call("strengths", outcome))
       ELSE /\ a_strengths' = StrengthsFallback(self_text, a_tech, a_soft)
            /\ a_calls' = a_calls
    /\ a_pc' = "weaknesses"
    /\ UNCHANGED <<a_text, a_configured, a_tech, a_soft, a_summary, a_weaknesses, a_score,
                   a_missing, a_suggestions, a_first>>
    /\ UNCHANGED <<m_vars, s_vars, r_vars, p_vars, t_vars, u_vars>>

\* line 31, _identify_weaknesses
AnalyzeWeaknesses ==
    /\ a_pc = "weaknesses"
    /\ IF a_configured
       THEN \E outcome \in StrengthsWeaknessesOutcomes :
               LET ai_result == analyze_strengths_weaknesses(outcome)
               IN  /\ a_weaknesses' = OrFallback(ai_result.weaknesses, WeaknessesFallback(self_text, a_tech, a_soft))
                   /\ a_calls' = Append(a_calls, Call("weaknesses", outcome))
       ELSE /\ a_weaknesses' = WeaknessesFallback(self_text, a_tech, a_soft)
            /\ a_calls' = a_calls
    /\ a_pc' = "score"
    /\ UNCHANGED <<a_text, a_configured, a_tech, a_soft, a_summary, a_strengths, a_score,
                   a_missing, a_suggestions, a_first>>
    /\ UNCHANGED <<m_vars, s_vars, r_vars, p_vars, t_vars, u_vars>>

\* lines 34 and 37, _calculate_score and _identify_missing_skills
AnalyzeScore ==
    /\ a_pc = "score"
    /\ a_score' = _calculate_score(self_text, a_tech, a_soft)
    /\ a_missing' = _identify_missing_skills(a_tech)
    /\ a_pc' = "suggestions"
    /\ UNCHANGED <<a_text, a_configured, a_tech, a_soft, a_summary, a_strengths, a_weaknesses,
                   a_suggestions, a_calls, a_first>>
    /\ UNCHANGED <<m_vars, s_vars, r_vars, p_vars, t_vars, u_vars>>

\* line 40, _generate_suggestions
AnalyzeSuggestions ==
    /\ a_pc = "suggestions"
    /\ IF a_configured
       THEN \E outcome \in SuggestionsOutcomes :
               LET ai_suggestions == generate_personalized_suggestions(outcome)
               IN  /\ a_suggestions' = OrFallback(ai_suggestions, SuggestionsFallback(self_text, a_tech, a_soft, a_score))
                   /\ a_calls' = Append(a_calls, Call("suggestions", outcome))
       ELSE /\ a_suggestions' = SuggestionsFallback(self_text, a_tech, a_soft, a_score)
            /\ a_calls' = a_calls
    /\ a_pc' = "done"
    /\ UNCHANGED <<a_text, a_configured, a_tech, a_soft, a_summary, a_strengths, a_weaknesses,
                   a_score, a_missing, a_first>>
    /\ UNCHANGED <<m_vars, s_vars, r_vars, p_vars, t_vars, u_vars>>

\* lines 42-51: the returned dict
AnalysisResult ==
    [summary          |-> a_summary,
     technical_skills |-> sorted(a_tech),
     soft_skills      |-> sorted(a_soft),
     strengths        |-> a_strengths,
     weaknesses       |-> a_weaknesses,
     missing_skills   |-> a_missing,
     score            |-> a_score,
     suggestions      |-> a_suggestions]

\* analyze_resume is called again on the same text (lines 344-345); what the
\* earlier call found is kept for comparison
AnalyzeAgain ==
    /\ a_pc = "done"
    /\ a_first = <<>>
    /\ a_first' = <<[technical_skills |-> AnalysisResult.technical_skills,
                     soft_skills      |-> AnalysisResult.soft_skills,
                     score            |-> AnalysisResult.score]>>
    /\ a_pc' = "call"
    /\ a_tech' = {}
    /\ a_soft' = {}
    /\ a_summary' = <<>>
    /\ a_strengths' = <<>>
    /\ a_weaknesses' = <<>>
    /\ a_score' = 0
    /\ a_missing' = <<>>
    /\ a_suggestions' = <<>>
    /\ a_calls' = <<>>
    /\ UNCHANGED <<a_text, a_configured>>
    /\ UNCHANGED <<m_vars, s_vars, r_vars, p_vars, t_vars, u_vars>>

AnalyzeNext ==
    \/ AnalyzeExtract
    \/ AnalyzeSummary
    \/ AnalyzeStrengths
    \/ AnalyzeWeaknesses
    \/ AnalyzeScore
    \/ AnalyzeSuggestions
    \/ AnalyzeAgain

SpecAnalyze == AnalyzeInit /\ [][AnalyzeNext]_vars

-----------------------------------------------------------------------------
(* The fallback extraction as a process                                     *)

ParseInit ==
    /\ p_pc = "call"
    /\ \/ \E shape \in Shapes : p_shape = shape /\ p_text = Document(shape)
       \/ p_shape = Given /\ p_text \in GivenTexts
    /\ p_result = <<>>
    /\ MatchIdle /\ SearchIdle /\ RankIdle /\ AnalyzeIdle /\ SaveIdle /\ UploadIdle

\* app.py line 1616: the extraction is called on the text of the resume
ExtractDetails ==
    /\ p_pc = "call"
    /\ p_result' = extract_resume_details_fallback(p_text)
    /\ p_pc' = "done"
    /\ UNCHANGED <<p_text, p_shape>>
    /\ UNCHANGED <<m_vars, s_vars, r_vars, a_vars, t_vars, u_vars>>

ParseNext == ExtractDetails

SpecParse == ParseInit /\ [][ParseNext]_vars

-----------------------------------------------------------------------------
(* save_recommendations as a process, one step per statement, beside the    *)
(* calls of get_recommendations that other sessions make                    *)

\* the rows stored by an earlier ranking
OldRows ==
    {<<>>,
     <<[job_id |-> 2, match_score |-> 200]>>,
     <<[job_id |-> 1, match_score |-> 500], [job_id |-> 2, match_score |-> 200]>>}

\* the lists rank_jobs may save: never empty
NewRows ==
    {<<[job_id |-> 1, match_score |-> 667]>>,
     <<[job_id |-> 3, match_score |-> 1000], [job_id |-> 1, match_score |-> 667]>>,
     <<[job_id |-> 3, match_score |-> 500], [job_id |-> 1, match_score |-> 500],
       [job_id |-> 2, match_score |-> 0]>>}

\* the limits a reader asks with: one row, two rows, the default
ReadLimits == {1, 2, 10}

SaveInit ==
    /\ MatchIdle /\ SearchIdle /\ AnalyzeIdle /\ ParseIdle /\ UploadIdle
    /\ r_pc = "idle"
    /\ r_analysis = NoAnalysis
    /\ r_limit = 0
    /\ db_jobs = <<j1, j2, j3>>
    /\ db_recs \in OldRows
    /\ r_matches = <<>>
    /\ r_top = <<>>
    /\ t_pc = "call"
    /\ t_new \in NewRows
    /\ t_old = db_recs
    /\ t_work = db_recs
    /\ t_next = 0
    /\ rd_limit \in ReadLimits
    /\ rd_result = None

\* line 325: the DELETE opens the transaction
SaveDelete ==
    /\ t_pc = "call"
    /\ t_work' = DeleteRows(t_work)
    /\ db_recs' = Execute(db_recs, t_work')
    /\ t_next' = 1
    /\ t_pc' = "insert"
    /\ UNCHANGED <<t_new, t_old, rd_limit, rd_result>>
    /\ UNCHANGED <<r_pc, r_analysis, r_limit, db_jobs, r_matches, r_top>>
    /\ UNCHANGED <<m_vars, s_vars, a_vars, p_vars, u_vars>>

\* lines 328-332: one turn of the loop
SaveInsert ==
    /\ t_pc = "insert"
    /\ t_next <= Len(t_new)
    /\ t_work' = InsertRow(t_work, t_new[t_next])
    /\ db_recs' = Execute(db_recs, t_work')
    /\ t_next' = t_next + 1
    /\ UNCHANGED <<t_pc, t_new, t_old, rd_limit, rd_result>>
    /\ UNCHANGED <<r_pc, r_analysis, r_limit, db_jobs, r_matches, r_top>>
    /\ UNCHANGED <<m_vars, s_vars, a_vars, p_vars, u_vars>>

\* lines 334-335: the commit makes the rows of the transaction the committed ones
SaveCommit ==
    /\ t_pc = "insert"
    /\ t_next > Len(t_new)
    /\ db_recs' = t_work
    /\ t_pc' = "done"
    /\ UNCHANGED <<t_new, t_old, t_work, t_next, rd_limit, rd_result>>
    /\ UNCHANGED <<r_pc, r_analysis, r_limit, db_jobs, r_matches, r_top>>
    /\ UNCHANGED <<m_vars, s_vars, a_vars, p_vars, u_vars>>

\* lines 325 and 334: the database is locked by another connection for longer than
\* the timeout; the statement raises, the connection is dropped with the function's
\* frame and its transaction is rolled back
SaveLocked ==
    /\ t_pc = "call" \/ (t_pc = "insert" /\ t_next > Len(t_new))
    /\ t_work' = db_recs
    /\ t_pc' = "raised"
    /\ UNCHANGED <<t_new, t_old, t_next, rd_limit, rd_result>>
    /\ UNCHANGED <<r_vars>>
    /\ UNCHANGED <<m_vars, s_vars, a_vars, p_vars, u_vars>>

\* lines 339-360: another session reads the recommendations of the user
Read ==
    /\ rd_result' \in get_recommendations(db_recs, db_jobs, rd_limit)
    /\ UNCHANGED <<t_pc, t_new, t_old, t_work, t_next, rd_limit>>
    /\ UNCHANGED <<r_vars>>
    /\ UNCHANGED <<m_vars, s_vars, a_vars, p_vars, u_vars>>

SaveNext ==
    \/ SaveDelete
    \/ SaveInsert
    \/ SaveCommit
    \/ SaveLocked
    \/ Read

SpecSave == SaveInit /\ [][SaveNext]_vars

-----------------------------------------------------------------------------
(* resume_parser.py, database.py and app.py: the upload of a resume.  A     *)
(* file is [size, name, content]: size is len(file_bytes), and content is   *)
(* what the PDF or DOCX library makes of the bytes, [kind |-> "text", text] *)
(* with the text of the pages or paragraphs, each followed by a line feed,  *)
(* or [kind |-> "corrupt", error] with the message of the exception the     *)
(* library raises.  A call comes back as [raised, value].                   *)

\* config.py line 12
MAX_FILE_SIZE_MB == 10

\* config.py line 13
ALLOWED_EXTENSIONS == {<<"p","d","f">>, <<"d","o","c","x">>, <<"d","o","c">>}

\* resume_parser.py line 70: 1024 * 1024
BytesPerMb == 1048576

\* resume_parser.py line 56: the least number of characters of a text that is taken
MinTextLength == 50

Returned(value) == [raised |-> FALSE, value |-> value]

Failed(message) == [raised |-> TRUE, value |-> message]

\* str.endswith
endswith(s, suffix) ==
    Len(s) >= Len(suffix) /\ SubSeq(s, Len(s) - Len(suffix) + 1, Len(s)) = suffix

RECURSIVE Decimal(_)
\* str() of a natural number
Decimal(n) == IF n < 10 THEN Digit(n) ELSE Decimal(n \div 10) \o Digit(n % 10)

\* line 73, f"{file_size_mb:.1f}": the quotient is exact in a float, and
\* the format rounds it to tenths, a tie to the even tenth
OneDecimal(size) ==
    LET q == (size * 10) \div BytesPerMb
        r == (size * 10) % BytesPerMb
        tenths == IF 2 * r > BytesPerMb THEN q + 1
                  ELSE IF 2 * r = BytesPerMb THEN q + (q % 2)
                  ELSE q
    IN  Decimal(tenths \div 10) \o <<".">> \o Digit(tenths % 10)

\* resume_parser.py lines 65-75
validate_file_size(size, max_size_mb) ==
    IF size > max_size_mb * BytesPerMb
    THEN <<FALSE, <<"F","i","l","e"," ","s","i","z","e"," ","(">> \o OneDecimal(size) \o <<"M","B",")"," ","e","x","c","e","e","d","s"," ","m","a","x","i","m","u","m"," ","a","l","l","o","w","e","d"," ","s","i","z","e"," ","(">>
                     \o Decimal(max_size_mb) \o <<"M","B",")">>>>
    ELSE <<TRUE, <<"F","i","l","e"," ","s","i","z","e"," ","i","s"," ","v","a","l","i","d">>>>

\* resume_parser.py lines 78-90; order is the order in which the set is iterated
validate_file_extension(filename, order) ==
    IF \E i \in DOMAIN order : endswith(lower(filename), <<".">> \o order[i])
    THEN <<TRUE, <<"V","a","l","i","d"," ","f","i","l","e"," ","t","y","p","e">>>>
    ELSE <<FALSE, <<"I","n","v","a","l","i","d"," ","f","i","l","e"," ","t","y","p","e","."," ","A","l","l","o","w","e","d"," ","t","y","p","e","s",":"," ">> \o join(order, <<","," ">>)>>

\* resume_parser.py lines 11-23
extract_text_from_pdf(content) ==
    IF content.kind = "corrupt"
    THEN Failed(<<"E","r","r","o","r"," ","e","x","t","r","a","c","t","i","n","g"," ","P","D","F"," ","t","e","x","t",":"," ">> \o content.error)
    ELSE Returned(strip(content.text))

\* resume_parser.py lines 26-38
extract_text_from_docx(content) ==
    IF content.kind = "corrupt"
    THEN Failed(<<"E","r","r","o","r"," ","e","x","t","r","a","c","t","i","n","g"," ","D","O","C","X"," ","t","e","x","t",":"," ">> \o content.error)
    ELSE Returned(strip(content.text))

\* the format of the file by the end of its name, resume_parser.py lines 47-54
FormatOf(filename) ==
    LET filename_lower == lower(filename)
    IN  IF endswith(filename_lower, <<".","p","d","f">>) THEN "pdf"
        ELSE IF endswith(filename_lower, <<".","d","o","c","x">>) \/ endswith(filename_lower, <<".","d","o","c">>) THEN "docx"
        ELSE "other"

\* variant: without the try of lines 46 and 61, an exception of the library leaves
\* the function
extract_text_Unguarded(file) ==
    LET format == FormatOf(file.name)
        text == IF format = "pdf" THEN extract_text_from_pdf(file.content)
                ELSE extract_text_from_docx(file.content)
    IN  IF format = "other"
        THEN Returned(<<FALSE, <<"U","n","s","u","p","p","o","r","t","e","d"," ","f","i","l","e"," ","f","o","r","m","a","t","."," ","P","l","e","a","s","e"," ","u","p","l","o","a","d"," ","P","D","F"," ","o","r"," ","D","O","C","X"," ","f","i","l","e","s",".">>, None>>)
        ELSE IF text.raised THEN text
        ELSE IF text.value = <<>> \/ Len(strip(text.value)) < MinTextLength
        THEN Returned(<<FALSE, <<"C","o","u","l","d"," ","n","o","t"," ","e","x","t","r","a","c","t"," ","s","u","f","f","i","c","i","e","n","t"," ","t","e","x","t"," ","f","r","o","m"," ","t","h","e"," ","f","i","l","e","."," ","P","l","e","a","s","e"," ","e","n","s","u","r","e"," ","t","h","e"," ","r","e","s","u","m","e"," ","c","o","n","t","a","i","n","s"," ","r","e","a","d","a","b","l","e"," ","t","e","x","t",".">>, None>>)
        ELSE Returned(<<TRUE, <<"T","e","x","t"," ","e","x","t","r","a","c","t","e","d"," ","s","u","c","c","e","s","s","f","u","l","l","y">>, text.value>>)

\* resume_parser.py lines 41-62
extract_text(file) ==
    LET format == FormatOf(file.name)
        text == IF format = "pdf" THEN extract_text_from_pdf(file.content)
                ELSE extract_text_from_docx(file.content)
    IN  IF format = "other"
        THEN Returned(<<FALSE, <<"U","n","s","u","p","p","o","r","t","e","d"," ","f","i","l","e"," ","f","o","r","m","a","t","."," ","P","l","e","a","s","e"," ","u","p","l","o","a","d"," ","P","D","F"," ","o","r"," ","D","O","C","X"," ","f","i","l","e","s",".">>, None>>)
        ELSE IF text.raised
        THEN Returned(<<FALSE, <<"E","r","r","o","r"," ","p","r","o","c","e","s","s","i","n","g"," ","f","i","l","e",":"," ">> \o text.value, None>>)
        ELSE IF text.value = <<>> \/ Len(strip(text.value)) < MinTextLength
        THEN Returned(<<FALSE, <<"C","o","u","l","d"," ","n","o","t"," ","e","x","t","r","a","c","t"," ","s","u","f","f","i","c","i","e","n","t"," ","t","e","x","t"," ","f","r","o","m"," ","t","h","e"," ","f","i","l","e","."," ","P","l","e","a","s","e"," ","e","n","s","u","r","e"," ","t","h","e"," ","r","e","s","u","m","e"," ","c","o","n","t","a","i","n","s"," ","r","e","a","d","a","b","l","e"," ","t","e","x","t",".">>, None>>)
        ELSE Returned(<<TRUE, <<"T","e","x","t"," ","e","x","t","r","a","c","t","e","d"," ","s","u","c","c","e","s","s","f","u","l","l","y">>, text.value>>)

\* what the handler has when it reports or goes on to save
Report(raised, ok, message, text) ==
    [raised |-> raised, ok |-> ok, message |-> message, text |-> text]

\* app.py lines 1008-1029: the three steps before anything is saved
Validated(file, order) ==
    LET size == validate_file_size(file.size, MAX_FILE_SIZE_MB)
        extension == validate_file_extension(file.name, order)
        extracted == extract_text(file)
    IN  IF ~size[1] THEN Report(FALSE, FALSE, size[2], None)
        ELSE IF ~extension[1] THEN Report(FALSE, FALSE, extension[2], None)
        ELSE IF extracted.raised THEN Report(TRUE, FALSE, extracted.value, None)
        ELSE IF ~extracted.value[1] THEN Report(FALSE, FALSE, extracted.value[2], None)
        ELSE Report(FALSE, TRUE, extracted.value[2], extracted.value[3])

\* database.py lines 151-162; ids are given in sequence and no row is ever deleted
save_resume(resumes, user_id, filename, text_content, now) ==
    Append(resumes, [id |-> Len(resumes) + 1, user_id |-> user_id, filename |-> filename,
                     original_text |-> text_content, upload_date |-> now])

\* database.py lines 193-216
save_analysis(analysis, resume_id, analysis_data, now) ==
    Append(analysis, [id |-> Len(analysis) + 1, resume_id |-> resume_id,
                      data |-> analysis_data, analyzed_at |-> now])

\* app.py line 1036: the dict analyze_resume returns, kept as the text it was made of
analyze_resume(extracted_text) == [of |-> extracted_text]

\* database.py lines 219-243: what it may return, the row in a sequence and None
\* as the empty sequence; ORDER BY analyzed_at DESC LIMIT 1 leaves open which of
\* the rows with the greatest analyzed_at comes first
get_latest_analysis(analysis, resumes, user_id) ==
    LET joined == {i \in DOMAIN analysis :
                      \E j \in DOMAIN resumes : /\ resumes[j].id = analysis[i].resume_id
                                                /\ resumes[j].user_id = user_id}
        top == {i \in joined : \A k \in joined : analysis[k].analyzed_at <= analysis[i].analyzed_at}
    IN  IF joined = {} THEN {<<>>} ELSE {<<analysis[i]>> : i \in top}

-----------------------------------------------------------------------------
(* Inputs of the upload *)

\* the most resumes that are saved
MaxUploads == 2

\* the last second the clock of the database reaches
MaxClock == 1

Users == {1, 2}

Text(text) == [kind |-> "text", text |-> text]

Corrupt(error) == [kind |-> "corrupt", error |-> error]

\* 50 characters after strip()
text_enough == <<" "," ","J","a","n","e"," ","D","o","e",","," ","e","n","g","i","n","e","e","r",":"," ","P","y","t","h","o","n"," ","a","n","d"," ","M","y","S","Q","L"," ","f","o","r"," ","1","0"," ","y","e","a","r","s",".","\n">>

\* 49 characters after strip()
text_short == <<"J","a","n","e"," ","D","o","e",","," ","e","n","g","i","n","e","e","r",":"," ","P","y","t","h","o","n"," ","a","n","d"," ","M","y","S","Q","L"," ","f","o","r"," ","9"," ","y","e","a","r","s","."," ","\n","\n">>

text_other == <<"J","o","h","n"," ","R","o","e","\n","S","u","m","m","a","r","y","\n","A","n","a","l","y","s","t"," ","o","f"," ","t","h","i","n","g","s",","," ","t","e","n"," ","y","e","a","r","s"," ","i","n"," ","b","a","n","k","i","n","g",".","\n">>

Files ==
    {[size |-> 2000, name |-> <<"c","v",".","p","d","f">>, content |-> Text(text_enough)],
     [size |-> 10 * BytesPerMb, name |-> <<"R","e","s","u","m","e",".","D","O","C","X">>, content |-> Text(text_other)],
     [size |-> 10 * BytesPerMb + 1, name |-> <<"c","v",".","p","d","f">>, content |-> Text(text_enough)],
     [size |-> 11 * BytesPerMb + 262144, name |-> <<"c","v",".","t","x","t">>, content |-> Text(text_enough)],
     [size |-> 2000, name |-> <<"c","v",".","t","x","t">>, content |-> Text(text_enough)],
     [size |-> 2000, name |-> <<"c","v",".","p","d","f">>, content |-> Text(text_short)],
     [size |-> 2000, name |-> <<"c","v",".","d","o","c","x">>, content |-> Text(<<"\n">>)],
     [size |-> 2000, name |-> <<"o","l","d",".","d","o","c">>, content |-> Corrupt(<<"F","i","l","e"," ","i","s"," ","n","o","t"," ","a"," ","z","i","p"," ","f","i","l","e">>)],
     [size |-> 2000, name |-> <<"c","v",".","p","d","f">>, content |-> Corrupt(<<"E","O","F"," ","m","a","r","k","e","r"," ","n","o","t"," ","f","o","u","n","d">>)]}

\* the orders in which the set of the extensions may be iterated
Orders ==
    {order \in [1..Cardinality(ALLOWED_EXTENSIONS) -> ALLOWED_EXTENSIONS] :
        \A i, j \in DOMAIN order : i # j => order[i] # order[j]}

\* what the three steps may make of each file, the order of the extensions being open
Reports == [file \in Files |-> {Validated(file, order) : order \in Orders}]

-----------------------------------------------------------------------------
(* The upload as a process: the handler of the button of show_upload_page,  *)
(* one step up to each commit, beside the clock of the database and the     *)
(* calls of get_latest_analysis                                             *)

\* the tables are empty and the page is shown
UploadInit ==
    /\ MatchIdle /\ SearchIdle /\ RankIdle /\ AnalyzeIdle /\ ParseIdle /\ SaveIdle
    /\ u_pc = "page"
    /\ u_user = 0
    /\ u_file = <<>>
    /\ u_report = <<>>
    /\ u_resume_id = 0
    /\ u_resumes = <<>>
    /\ u_analysis = <<>>
    /\ u_clock = 0
    /\ u_latest = <<>>

\* app.py lines 1006-1029: a step fails, the message is shown and the handler returns
UploadRejected ==
    /\ u_pc = "page"
    /\ \E file \in Files :
          \E report \in Reports[file] :
              /\ ~report.ok
              /\ u_file' = file
              /\ u_report' = report
    /\ UNCHANGED <<u_pc, u_user, u_resume_id, u_resumes, u_analysis, u_clock, u_latest>>
    /\ UNCHANGED <<m_vars, s_vars, r_vars, a_vars, p_vars, t_vars>>

\* app.py lines 1006-1034: the three steps succeed and save_resume commits its row
UploadSaveResume ==
    /\ u_pc = "page"
    /\ Len(u_resumes) < MaxUploads
    /\ \E user \in Users, file \in Files :
          \E report \in Reports[file] :
              /\ report.ok
              /\ u_user' = user
              /\ u_file' = file
              /\ u_report' = report
              /\ u_resumes' = save_resume(u_resumes, user, file.name, report.text, u_clock)
    /\ u_resume_id' = Len(u_resumes) + 1
    /\ u_pc' = "saved"
    /\ UNCHANGED <<u_analysis, u_clock, u_latest>>
    /\ UNCHANGED <<m_vars, s_vars, r_vars, a_vars, p_vars, t_vars>>

\* app.py lines 1036-1042: the analysis is made and save_analysis commits its row
UploadSaveAnalysis ==
    /\ u_pc = "saved"
    /\ u_analysis' = save_analysis(u_analysis, u_resume_id, analyze_resume(u_report.text),
                                   u_clock)
    /\ u_pc' = "page"
    /\ UNCHANGED <<u_user, u_file, u_report, u_resume_id, u_resumes, u_clock, u_latest>>
    /\ UNCHANGED <<m_vars, s_vars, r_vars, a_vars, p_vars, t_vars>>

\* a second passes
Tick ==
    /\ u_clock < MaxClock
    /\ u_clock' = u_clock + 1
    /\ UNCHANGED <<u_pc, u_user, u_file, u_report, u_resume_id, u_resumes, u_analysis,
                   u_latest>>
    /\ UNCHANGED <<m_vars, s_vars, r_vars, a_vars, p_vars, t_vars>>

\* database.py lines 219-243: once the handler has returned, a page asks for the
\* latest analysis of a user
ReadLatest ==
    /\ u_pc = "page"
    /\ \E user \in Users :
          \E data \in get_latest_analysis(u_analysis, u_resumes, user) :
              u_latest' = [user |-> user, data |-> data]
    /\ UNCHANGED <<u_pc, u_user, u_file, u_report, u_resume_id, u_resumes, u_analysis,
                   u_clock>>
    /\ UNCHANGED <<m_vars, s_vars, r_vars, a_vars, p_vars, t_vars>>

UploadNext ==
    \/ UploadRejected
    \/ UploadSaveResume
    \/ UploadSaveAnalysis
    \/ Tick
    \/ ReadLatest

SpecUpload == UploadInit /\ [][UploadNext]_vars

-----------------------------------------------------------------------------
(* Claims on the match scorer *)

Abs(x) == IF x < 0 THEN 0 - x ELSE x

C1_Case ==
    /\ m_pc = "done"
    /\ Range(m_resume) = {<<"p","y","t","h","o","n">>, <<"s","q","l">>}
    /\ Range(m_job) = {<<"p","y","t","h","o","n">>, <<"s","q","l">>, <<"d","o","c","k","e","r">>}

\* C1 as stated: candidate {python, sql} against required {python, sql, docker}
\* gives direct_matches = [python, sql], total_required = 3 and
\* match_percentage = 66.7
C1_Original ==
    C1_Case =>
        /\ m_result.direct_matches = <<<<"p","y","t","h","o","n">>, <<"s","q","l">>>>
        /\ m_result.total_required = 3
        /\ m_result.match_percentage = 667

\* C1 amended: candidate {python, sql} against required {python, sql, docker}
\* gives direct_matches = [python, sql], total_required = 3 and
\* match_percentage = 60.0, which is (0.6*2/3 + 0.2*0/3 + 0.1 + 0.1)*100
C1_Amended ==
    C1_Case =>
        /\ m_result.direct_matches = <<<<"p","y","t","h","o","n">>, <<"s","q","l">>>>
        /\ m_result.total_required = 3
        /\ m_result.match_percentage = 600

C1_Witness == C1_Case /\ m_result.total_matched = 2

\* C2: for a non-empty required list, match_percentage is
\* min(100, round(100 * (0.6*|direct|/n + 0.2*|related|/n + 0.1 + c), 1)) with
\* n the number of distinct normalized required skills and c = 0.1 when the
\* normalized candidate and required sets intersect, else 0.05.  In tenths of a
\* percent: the integer nearest to (600*|direct| + 200*|related|)/n + 100 + 1000*c.
C2_ScoreFormula ==
    LET cand == {strip(lower(s)) : s \in Range(m_resume)}
        req  == {strip(lower(s)) : s \in Range(m_job)}
        n    == Cardinality(req)
        c    == IF cand \cap req # {} THEN 100 ELSE 50
        num  == 600 * Len(m_result.direct_matches) + 200 * Len(m_result.related_matches)
                + (100 + c) * n
    IN  (m_pc = "done" /\ m_job # <<>>) =>
            \E y \in 0..2000 :
                /\ 2 * Abs(y * n - num) <= n
                /\ 2 * Abs(y * n - num) = n => y % 2 = 0
                /\ m_result.match_percentage = Min(1000, y)

\* a required skill matched through a synonym only, so that c = 0.05 although
\* there is a direct match, next to a related match
C2_Witness ==
    /\ m_pc = "done"
    /\ m_job # <<>>
    /\ {strip(lower(s)) : s \in Range(m_resume)} \cap {strip(lower(s)) : s \in Range(m_job)} = {}
    /\ Len(m_result.direct_matches) > 0
    /\ Len(m_result.related_matches) > 0

-----------------------------------------------------------------------------
(* Claims on the composite search *)

Finished(p) == s_future[p] \in {"done", "collected"}

\* all_jobs had the futures been handed over in the order they were submitted
AllJobsInIssueOrder ==
    s_returned["active"].jobs \o s_returned["global"].jobs \o s_returned["adzuna"].jobs

\* C3: for fixed provider responses search_jobs returns the same list whatever
\* order the provider calls complete in, that is, the list it returns when
\* they complete in the order they were issued
C3_OrderIndependent ==
    s_pc = "done" /\ s_exit # "unconfigured" =>
        s_result = FinalJobs(AllJobsInIssueOrder, s_keywords, s_max_results)

\* C4: when every provider returns an empty list or fails, or none is
\* configured, search_jobs returns the placeholder postings built from the
\* keywords, at least one, never an empty list
C4_Fallback ==
    (s_pc = "done" /\ \A p \in Providers : s_returned[p].jobs = <<>>) =>
        /\ Len(s_result) >= 1
        /\ s_result = _get_mock_jobs(s_keywords)
        /\ \A i \in DOMAIN s_result : Contains(s_result[i].title,
               IF s_keywords = <<>> THEN <<"S","o","f","t","w","a","r","e">> ELSE s_keywords[1])

\* all three providers configured, one timed out, one answered with no
\* postings, one was refused, and the placeholder postings came back
C4_Witness ==
    /\ s_pc = "done"
    /\ s_exit = "fallback"
    /\ s_configured = Providers
    /\ s_exchange["active"].kind = "timeout"
    /\ s_exchange["adzuna"].status = 200
    /\ g_log # <<>>
    /\ Len(s_result) = 3

\* the exchange made the request raise: a timeout, or a body that is no JSON
Raises(resp) == resp.kind = "timeout" \/ (resp.status = 200 /\ resp.body.type = "invalid")

RECURSIVE JobsOf(_)
\* the postings of the futures in `order`, one after the other
JobsOf(order) ==
    IF order = <<>> THEN <<>>
    ELSE s_returned[Head(order)].jobs \o JobsOf(Tail(order))

\* C5: a provider call that raises or times out contributes no posting and
\* never makes search_jobs raise (its future holds a list), and the postings
\* of every other provider are all in all_jobs before deduplication
C5_FailureIsolated ==
    /\ \A p \in Providers : ~s_returned[p].raised
    /\ \A p \in {"active", "adzuna"} :
          Finished(p) /\ Raises(s_exchange[p]) => s_returned[p].jobs = <<>>
    /\ (Finished("global") /\ \A i \in DOMAIN g_log : g_log[i].result.raised) =>
          s_returned["global"].jobs = <<>>
    /\ s_all_jobs = JobsOf(s_order)
    /\ s_pc = "done" /\ s_exit # "unconfigured" =>
          {s_order[i] : i \in DOMAIN s_order} = s_configured

\* one provider timed out, another raised on its body, the third returned
\* postings and they were collected
C5_Witness ==
    /\ s_pc = "done"
    /\ s_exchange["active"].kind = "timeout"
    /\ g_log # <<>> /\ g_log[1].result.raised
    /\ s_returned["adzuna"].jobs # <<>>
    /\ s_all_jobs = s_returned["adzuna"].jobs
    /\ s_order[1] = "active"

\* C6: the returned list never holds two postings with the same url
C6_UniqueUrls ==
    s_pc = "done" =>
        \A i, j \in DOMAIN s_result : i # j => s_result[i].url # s_result[j].url

\* the same url came twice from one provider and once more from another
C6_Witness ==
    /\ s_pc = "done"
    /\ s_exit = "live"
    /\ \E i, j \in DOMAIN s_returned["active"].jobs :
          i # j /\ s_returned["active"].jobs[i].url = s_returned["active"].jobs[j].url
    /\ \E i \in DOMAIN s_returned["active"].jobs, j \in DOMAIN s_returned["global"].jobs :
          s_returned["active"].jobs[i].url = s_returned["global"].jobs[j].url
    /\ Len(s_result) >= 2

\* the posting date is an empty or an unparseable string
DateUnknown(job) == job.posted_date.kind \in {"text", "empty"}

\* C7: the collected postings are returned in ascending order of days since
\* posting, and a posting whose date is unknown comes after every posting
\* whose date is known
C7_SortedUnknownLast ==
    s_pc = "done" /\ s_exit = "live" =>
        /\ \A i, j \in DOMAIN s_result : i < j => s_result[i].days_ago <= s_result[j].days_ago
        /\ \A i, j \in DOMAIN s_result :
              DateUnknown(s_result[i]) /\ ~DateUnknown(s_result[j]) => j < i

\* the credential's call came back without raising
Succeeded(entry) == ~entry.result.raised

\* the credential's last exchange was a non-success status or a quota message
NonSuccessOrQuota(entry) ==
    /\ entry.latest.kind = "http"
    /\ \/ entry.latest.status # 200
       \/ /\ entry.latest.body.type = "message"
          /\ Contains(lower(entry.latest.body.message), <<"e","x","c","e","e","d","e","d">>)

\* C8 as stated: credentials are tried in configured order, the next one only
\* after a non-success status or a quota message, the first call that
\* succeeds ends the loop and its results are returned, and an empty list is
\* returned only when no credential succeeded
C8_Original ==
    /\ \A i \in DOMAIN g_log : g_log[i].key = i
    /\ \A i \in 1..(Len(g_log) - 1) : NonSuccessOrQuota(g_log[i])
    /\ Finished("global") =>
          /\ \A i \in DOMAIN g_log :
                Succeeded(g_log[i]) =>
                    i = Len(g_log) /\ s_returned["global"].jobs = g_log[i].result.jobs
          /\ s_returned["global"].jobs = <<>> => \A i \in DOMAIN g_log : ~Succeeded(g_log[i])

\* the credential's call returned at least one posting
GavePostings(entry) == ~entry.result.raised /\ entry.result.jobs # <<>>

\* C8 amended: credentials are tried in configured order, the next one after
\* a call that raised (non-success status, quota message, timeout) or that
\* returned no posting; the first call that returns postings ends the loop
\* and its results are returned; an empty list is returned only when every
\* credential was tried and none returned a posting
C8_Amended ==
    /\ \A i \in DOMAIN g_log : g_log[i].key = i
    /\ \A i \in 1..(Len(g_log) - 1) : ~GavePostings(g_log[i])
    /\ Finished("global") =>
          /\ \A i \in DOMAIN g_log :
                GavePostings(g_log[i]) =>
                    i = Len(g_log) /\ s_returned["global"].jobs = g_log[i].result.jobs
          /\ s_returned["global"].jobs = <<>> =>
                Len(g_log) = s_nkeys /\ \A i \in DOMAIN g_log : ~GavePostings(g_log[i])

\* the first credential answered without postings and without an error, the
\* second was tried and its postings were returned
C8_Witness ==
    /\ Finished("global")
    /\ Len(g_log) = 2
    /\ Succeeded(g_log[1]) /\ g_log[1].result.jobs = <<>>
    /\ s_returned["global"].jobs # <<>>
    /\ s_returned["global"].jobs = g_log[2].result.jobs

-----------------------------------------------------------------------------
(* Claims on the ranking *)

\* the place of a scored posting in job_matches (postings differ in job_id)
PlaceOf(x) == CHOOSE p \in DOMAIN r_matches : r_matches[p] = x

\* x is ranked before y: easy apply first, then the higher score, then the
\* earlier place in the order the postings came in
RankedBefore(x, y) ==
    \/ x.easy_apply /\ ~y.easy_apply
    \/ x.easy_apply = y.easy_apply /\ x.match_score > y.match_score
    \/ /\ x.easy_apply = y.easy_apply
       /\ x.match_score = y.match_score
       /\ PlaceOf(x) < PlaceOf(y)

\* C9: rank_jobs returns the first `limit` entries of the stable two-key sort
\* of the scored postings: easy_apply postings before the others whatever the
\* score, then by descending match_score, equal postings in the order the
\* aggregator (or the jobs table) had them in
C9_StableTwoKeySort ==
    r_pc = "done" /\ r_analysis.present =>
        /\ Len(r_top) = Min(r_limit, Len(r_matches))
        /\ \A i \in DOMAIN r_top : \E p \in DOMAIN r_matches : r_matches[p] = r_top[i]
        /\ \A i, j \in DOMAIN r_top : i < j => RankedBefore(r_top[i], r_top[j])
        /\ \A p \in DOMAIN r_matches :
              (\A i \in DOMAIN r_top : r_top[i] # r_matches[p]) =>
                  \A i \in DOMAIN r_top : RankedBefore(r_top[i], r_matches[p])
        /\ s_pc = "done" /\ s_result # <<>> =>
              /\ Len(r_matches) = Len(s_result)
              /\ \A p \in DOMAIN r_matches : r_matches[p].apply_link = s_result[p].url
        /\ s_pc = "idle" =>
              /\ Len(r_matches) = Len(db_jobs)
              /\ \A p \in DOMAIN r_matches : r_matches[p].job_id = db_jobs[p].id

\* an easy_apply posting was moved ahead of a posting without easy_apply that
\* the aggregator had placed before it, and both are in the returned list
C9_Witness ==
    /\ r_pc = "done"
    /\ \E i, j \in DOMAIN r_top :
          /\ i < j
          /\ r_top[i].easy_apply /\ ~r_top[j].easy_apply
          /\ PlaceOf(r_top[i]) > PlaceOf(r_top[j])

\* a character of a word: a letter or a digit
WordChar(c) == Ord[c] \in Ord["0"]..Ord["9"] \/ Ord[c] \in Ord["A"]..Ord["Z"]
               \/ Ord[c] \in Ord["a"]..Ord["z"]

\* term occurs in text as a whole word or phrase: not joined to a letter or digit
ContainsWord(text, term) ==
    \E i \in 0..(Len(text) - Len(term)) :
        /\ \A j \in 1..Len(term) : text[i + j] = term[j]
        /\ i = 0 \/ ~WordChar(text[i])
        /\ i + Len(term) = Len(text) \/ ~WordChar(text[i + Len(term) + 1])

\* C10: the required_skills derived for a live posting are at most 15
\* dictionary terms, each occurring in the posting's description as a whole
\* word or phrase, never only inside a longer word
C10_WholeWordSkills ==
    r_pc = "done" /\ s_pc = "done" /\ s_result # <<>> =>
        \A p \in DOMAIN r_matches :
            /\ r_matches[p].required_skills \subseteq TECHNICAL_SKILLS
            /\ Cardinality(r_matches[p].required_skills) <= 15
            /\ \A skill \in r_matches[p].required_skills :
                  ContainsWord(lower(s_result[p].description), skill)

-----------------------------------------------------------------------------
(* Claims on the analyzer *)

\* the skills of both dictionaries
DictionarySkills == TECHNICAL_SKILLS \cup SOFT_SKILLS

\* C11: after extraction, every dictionary skill that stands in the text as a
\* word or phrase of its own is among the extracted skills, and every
\* dictionary skill that occurs only inside a longer word is not
C11_StandaloneSkills ==
    a_pc = "summary" =>
        \A S \in DictionarySkills :
            /\ ContainsWord(lower(a_text), S) => S \in a_tech \cup a_soft
            /\ Contains(lower(a_text), S) /\ ~ContainsWord(lower(a_text), S)
                  => S \notin a_tech \cup a_soft

\* the required skills of role number k, in lower case
RequiredOf(k) == {lower(s) : s \in Range(ROLE_SKILL_REQUIREMENTS[k].required)}

\* the number of required skills of role number k the candidate has
OverlapOf(k) == Cardinality(RequiredOf(k) \cap a_tech)

\* role number k has the highest overlap, and no role declared before it has as much
FirstBestRole(k) ==
    /\ \A j \in DOMAIN ROLE_SKILL_REQUIREMENTS : OverlapOf(j) <= OverlapOf(k)
    /\ \A j \in 1..(k - 1) : OverlapOf(j) < OverlapOf(k)

\* list holds, in ascending order, the n least strings of the set S, or all of S
FirstSorted(list, S, n) ==
    /\ Len(list) = Min(n, Cardinality(S))
    /\ Range(list) \subseteq S
    /\ \A i, j \in DOMAIN list : i < j => StrLess(list[i], list[j])
    /\ \A x \in S \ Range(list) : \A i \in DOMAIN list : StrLess(list[i], x)

\* C13: missing_skills is the alphabetical list, cut to 8, of the required
\* skills the candidate lacks of the role with the highest overlap, the role
\* declared first among those that tie
C13_MissingSkills ==
    a_pc \in {"suggestions", "done"} =>
        \E k \in DOMAIN ROLE_SKILL_REQUIREMENTS :
            /\ FirstBestRole(k)
            /\ FirstSorted(a_missing, RequiredOf(k) \ a_tech, 8)

\* two roles tie on a highest overlap above 0 and the list is cut to 8
C13_Witness ==
    /\ a_pc = "done"
    /\ Len(a_missing) = 8
    /\ \E k, j \in DOMAIN ROLE_SKILL_REQUIREMENTS :
          /\ FirstBestRole(k)
          /\ j > k
          /\ OverlapOf(j) = OverlapOf(k)
          /\ OverlapOf(k) > 0
          /\ RequiredOf(j) # RequiredOf(k)
          /\ Cardinality(RequiredOf(k) \ a_tech) > 8

\* C14: when no role has a skill in common with the candidate, missing_skills
\* is the generic list without the candidate's skills
C14_GenericFallback ==
    (a_pc \in {"suggestions", "done"} /\ \A k \in DOMAIN ROLE_SKILL_REQUIREMENTS : OverlapOf(k) = 0)
        => Range(a_missing) = Range(common_skills) \ a_tech

Unanswered(call) ==
    \/ call.outcome.raised
    \/ call.method = "summary" /\ generate_intelligent_summary(call.outcome) = <<>>
    \/ call.method = "strengths" /\ analyze_strengths_weaknesses(call.outcome).strengths = <<>>
    \/ call.method = "weaknesses" /\ analyze_strengths_weaknesses(call.outcome).weaknesses = <<>>
    \/ call.method = "suggestions" /\ generate_personalized_suggestions(call.outcome) = <<>>

\* C16: when the collaborator is not configured or gave nothing at any call,
\* the analysis has a summary, at least one strength and at least one suggestion
C16_FallbackNonEmpty ==
    (a_pc = "done" /\ \A i \in DOMAIN a_calls : Unanswered(a_calls[i])) =>
        /\ a_summary # <<>>
        /\ Len(a_strengths) >= 1
        /\ Len(a_suggestions) >= 1

\* the field of the analysis that a method of the collaborator serves
FieldOf(method) ==
    CASE method = "summary" -> a_summary
      [] method = "strengths" -> a_strengths
      [] method = "weaknesses" -> a_weaknesses
      [] method = "suggestions" -> a_suggestions

\* what the collaborator answered at a call
AnswerOf(call) ==
    CASE call.method = "summary" -> generate_intelligent_summary(call.outcome)
      [] call.method = "strengths" -> analyze_strengths_weaknesses(call.outcome).strengths
      [] call.method = "weaknesses" -> analyze_strengths_weaknesses(call.outcome).weaknesses
      [] call.method = "suggestions" -> generate_personalized_suggestions(call.outcome)

\* what the heuristic gives for the field a method serves
HeuristicOf(method) ==
    CASE method = "summary" -> SummaryFallback(a_text, lower(a_text))
      [] method = "strengths" -> StrengthsFallback(lower(a_text), a_tech, a_soft)
      [] method = "weaknesses" -> WeaknessesFallback(lower(a_text), a_tech, a_soft)
      [] method = "suggestions" -> SuggestionsFallback(lower(a_text), a_tech, a_soft, a_score)

\* C17: with the collaborator configured, analyze ends having made all four
\* calls in order whatever the earlier ones came back with; the field of a
\* call that raised or answered nothing holds the heuristic's value and the
\* field of every other call holds the collaborator's answer
C17_FailureAbsorbed ==
    (a_pc = "done" /\ a_configured) =>
        /\ [i \in DOMAIN a_calls |-> a_calls[i].method]
              = <<"summary", "strengths", "weaknesses", "suggestions">>
        /\ \A i \in DOMAIN a_calls :
              FieldOf(a_calls[i].method) =
                  IF Unanswered(a_calls[i]) THEN HeuristicOf(a_calls[i].method)
                  ELSE AnswerOf(a_calls[i])
        /\ a_score = _calculate_score(lower(a_text), a_tech, a_soft)

\* the call for the strengths raised, the later calls for the weaknesses and
\* the suggestions were made and answered
C17_Witness ==
    /\ a_pc = "done"
    /\ Len(a_calls) = 4
    /\ a_calls[2].outcome.raised
    /\ ~Unanswered(a_calls[3])
    /\ ~Unanswered(a_calls[4])
    /\ a_strengths = StrengthsFallback(lower(a_text), a_tech, a_soft)
    /\ a_weaknesses = <<<<"N","o"," ","m","e","t","r","i","c","s"," ","i","n"," ","t","h","e"," ","b","u","l","l","e","t"," ","p","o","i","n","t","s">>>>

-----------------------------------------------------------------------------
(* Claims on the fallback extraction *)

\* C12: the experience section with the body "Software Engineer at Acme Corp",
\* "Jan 2020 - Present", "Built things." is parsed into exactly one entry,
\* with the role "Software Engineer", the company "Acme Corp", a duration
\* that contains "2020" and "Present" and a description that contains
\* "Built things."
C12_ExperienceEntry ==
    p_pc = "done" /\ p_text = resume_acme =>
        /\ Len(p_result.experience) = 1
        /\ p_result.experience[1].role = <<"S","o","f","t","w","a","r","e"," ","E","n","g","i","n","e","e","r">>
        /\ p_result.experience[1].company = <<"A","c","m","e"," ","C","o","r","p">>
        /\ Contains(p_result.experience[1].duration, <<"2","0","2","0">>)
        /\ Contains(p_result.experience[1].duration, <<"P","r","e","s","e","n","t">>)
        /\ Contains(p_result.experience[1].description, <<"B","u","i","l","t"," ","t","h","i","n","g","s",".">>)

\* the i-th position as the document states it
WrittenExperience(i) ==
    [company |-> <<"A","c","m","e">> \o Digit(i), role |-> <<"D","e","v">> \o Digit(i),
     duration |-> <<"2","0","1">> \o Digit(i) \o <<" ","-"," ","2","0","2">> \o Digit(i),
     description |-> <<"B","u","i","l","t"," ","t","h","i","n","g"," ">> \o Digit(i) \o <<".">>]

\* the i-th degree as the document states it
WrittenEducation(i) ==
    [institution |-> <<"U","n","i","v","e","r","s","i","t","y"," ">> \o Digit(i), degree |-> <<"B","S","c"," ","C","o","u","r","s","e">> \o Digit(i),
     year |-> <<"2","0","0">> \o Digit(i)]

\* the i-th project as the document states it
WrittenProject(i) ==
    [name |-> <<"P","r","o","j","e","c","t"," ">> \o Digit(i), technologies |-> <<"P","y","t","h","o","n">>,
     description |-> <<"B","u","i","l","t"," ","p","a","r","t"," ">> \o Digit(i)]

\* entries are the first ones of n written, at most cap of them, each as written
FirstWritten(entries, n, cap, Written(_)) ==
    /\ Len(entries) = Min(Max(n, 0), cap)
    /\ \A i \in 1..Len(entries) : entries[i] = Written(i)

\* C20: the extraction returns at most 5 experience entries, at most 3
\* education entries and at most 3 project entries; the entries kept are the
\* first ones of the document, in its order and each as written; a section
\* that the text does not have gives an empty list
C20_SectionCaps ==
    p_pc = "done" =>
        /\ Len(p_result.experience) <= 5
        /\ Len(p_result.education) <= 3
        /\ Len(p_result.projects) <= 3
        /\ p_shape # Given =>
              /\ FirstWritten(p_result.experience, p_shape.experience, 5, WrittenExperience)
              /\ FirstWritten(p_result.education, p_shape.education, 3, WrittenEducation)
              /\ FirstWritten(p_result.projects, p_shape.projects, 3, WrittenProject)
        /\ p_text \in {<<>>, resume_bare} =>
              /\ p_result.experience = <<>>
              /\ p_result.education = <<>>
              /\ p_result.projects = <<>>
        /\ p_text \in {resume_acme, resume_blocks} => p_result.projects = <<>>

\* a document with more entries than are kept in each of its sections has been parsed
C20_Witness ==
    /\ p_pc = "done"
    /\ p_shape # Given
    /\ p_shape.experience > 5 /\ Len(p_result.experience) = 5
    /\ p_shape.education > 3 /\ Len(p_result.education) = 3
    /\ p_shape.projects > 3 /\ Len(p_result.projects) = 3

-----------------------------------------------------------------------------
(* Claims on the stored recommendations *)

\* the rows that stand for the entries of a returned list that are not live
\* and have an integer job_id
StoredEntries(top) ==
    {[job_id |-> top[i].job_id, match_score |-> top[i].match_score] :
        i \in {i \in DOMAIN top : ~top[i].is_live /\ top[i].job_id \in Int}}

\* C19 as stated: once rank_jobs has returned, the stored rows of the user
\* are exactly the entries of the returned list that are not live and have an
\* integer job_id, and no row of an earlier ranking remains
C19_Original ==
    r_pc = "done" => Range(db_recs) = StoredEntries(r_top)

\* C19 amended: when the returned list has an entry that is not live and has
\* an integer job_id, the stored rows become exactly those entries and no
\* earlier row remains; when it has none, the stored rows stay as they were
C19_Amended ==
    [][r_pc # "done" /\ r_pc' = "done" =>
          IF StoredEntries(r_top') # {}
          THEN Range(db_recs') = StoredEntries(r_top') /\ Len(db_recs') = Cardinality(StoredEntries(r_top'))
          ELSE db_recs' = db_recs]_vars

\* rank_jobs has returned rows of table jobs and they are what is stored; the
\* row of the earlier ranking is not among them
C19_Witness ==
    /\ r_pc = "done"
    /\ r_top # <<>>
    /\ StoredEntries(r_top) # {}
    /\ Range(db_recs) = StoredEntries(r_top)
    /\ \A rows \in RecommendationTables : \A i \in DOMAIN rows : rows[i] \notin Range(db_recs)

\* C18: whenever get_recommendations runs beside save_recommendations, what it
\* returns is what it returns on the complete earlier rows or on the complete
\* new rows: never the empty set between the DELETE and the INSERTs, never a
\* part of the new rows, never earlier and new rows together
C18_AtomicReplace ==
    rd_result # None =>
        \/ rd_result \in get_recommendations(t_old, db_jobs, rd_limit)
        \/ rd_result \in get_recommendations(t_new, db_jobs, rd_limit)

\* a reader ran between the DELETE and the commit, when the writer's own rows were
\* empty or a part of the new ones, and got the earlier rows
C18_Witness ==
    /\ t_pc = "insert"
    /\ t_old # <<>>
    /\ Len(t_work) < Len(t_new)
    /\ rd_result # None
    /\ rd_result \in get_recommendations(t_old, db_jobs, rd_limit)
    /\ rd_result # <<>>

-----------------------------------------------------------------------------
(* Further claims on the match scorer *)

\* the normalized skills of a list
Normalized(skills) == {strip(lower(s)) : s \in Range(skills)}

\* C21: with an empty required list calculate_skill_match returns
\* match_percentage = 0, whatever the candidate's skills
C21_EmptyRequired ==
    m_pc = "done" /\ m_job = <<>> => m_result.match_percentage = 0

\* a candidate with skills has been matched against an empty required list
C21_Witness ==
    /\ m_pc = "done"
    /\ m_job = <<>>
    /\ m_resume # <<>>
    /\ m_result.total_required = 0

\* C22: direct_matches and related_matches are disjoint subsets of the
\* normalized required skills, a required skill that is a direct match is no
\* related match, and total_matched is at most total_required
C22_DisjointMatches ==
    m_pc = "done" =>
        /\ Range(m_result.direct_matches) \subseteq Normalized(m_job)
        /\ Range(m_result.related_matches) \subseteq Normalized(m_job)
        /\ Range(m_result.direct_matches) \cap Range(m_result.related_matches) = {}
        /\ m_result.total_matched
              = Cardinality(Range(m_result.direct_matches) \cup Range(m_result.related_matches))
        /\ m_result.total_matched <= m_result.total_required

\* docker is required and is a direct match, and the candidate also has linux, which
\* is related to docker
C22_Witness ==
    /\ m_pc = "done"
    /\ <<"d","o","c","k","e","r">> \in Range(m_result.direct_matches)
    /\ <<"l","i","n","u","x">> \in Normalized(m_resume)

\* C27 as stated: for a non-empty required list match_percentage is between
\* 15.0 and 80.0, and it is 80.0 when every required skill is a direct match
C27_Original ==
    m_pc = "done" /\ m_job # <<>> =>
        /\ m_result.match_percentage >= 150
        /\ m_result.match_percentage <= 800
        /\ Range(m_result.direct_matches) = Normalized(m_job) =>
              m_result.match_percentage = 800

\* C27 amended: for a non-empty required list match_percentage is between
\* 15.0 and 80.0; when every required skill is a direct match it is 80.0 if
\* the candidate's normalized skills hold one of the required skills itself,
\* and 75.0 if every match came through a synonym
C27_Amended ==
    m_pc = "done" /\ m_job # <<>> =>
        /\ m_result.match_percentage >= 150
        /\ m_result.match_percentage <= 800
        /\ Range(m_result.direct_matches) = Normalized(m_job) =>
              m_result.match_percentage
                  = IF Normalized(m_resume) \cap Normalized(m_job) # {} THEN 800 ELSE 750

\* every required skill is a direct match, each through a synonym
C27_Witness ==
    /\ m_pc = "done"
    /\ m_job # <<>>
    /\ Range(m_result.direct_matches) = Normalized(m_job)
    /\ Normalized(m_resume) \cap Normalized(m_job) = {}
    /\ m_result.match_percentage = 750

\* the result for the candidate who has only the skills in S
ResultWith(S) == calculate_skill_match(SetToSeq(S), m_job)

\* C28: for the same required list, a candidate with more skills never has a
\* lower match_percentage, never loses a direct match and never has a lower
\* total_matched
C28_Monotone ==
    m_pc = "done" =>
        \A S \in SUBSET Range(m_resume) :
            /\ ResultWith(S).match_percentage <= m_result.match_percentage
            /\ Range(ResultWith(S).direct_matches) \subseteq Range(m_result.direct_matches)
            /\ ResultWith(S).total_matched <= m_result.total_matched

\* with one skill less the candidate had a related match that the skill added
\* turned into a direct match
C28_Witness ==
    /\ m_pc = "done"
    /\ \E s \in Range(m_resume) :
          /\ ResultWith(Range(m_resume) \ {s}).related_matches # <<>>
          /\ m_result.related_matches = <<>>
          /\ ResultWith(Range(m_resume) \ {s}).match_percentage < m_result.match_percentage

-----------------------------------------------------------------------------
(* Further claims on the analyzer *)

RECURSIVE SumOver(_, _)
\* the sum of f over the set S
SumOver(S, f) ==
    IF S = {} THEN 0
    ELSE LET x == CHOOSE x \in S : TRUE IN f[x] + SumOver(S \ {x}, f)

\* the places of the text where kw stands
Places(low, kw) == {p \in 0..(Len(low) - Len(kw)) : LitAt(low, p, kw)}

\* how many times the keywords stand in the text, each place counted
Occurrences(low, keywords) ==
    SumOver(keywords, [kw \in keywords |-> Cardinality(Places(low, kw))])

\* how many of the keywords stand in the text at least once
Present(low, keywords) == Cardinality({kw \in keywords : Places(low, kw) # {}})

\* the score with the experience and the education buckets made of the counts k and e
ScoreWith(low, k, e) ==
    Min(ContentPoints(WordCount(low)) + SkillPoints(Cardinality(a_tech))
          + Min(3 * k, 20) + Min(3 * e, 15) + Min(2 * Cardinality(a_soft), 10),
        100)

\* C23 as stated: the experience bucket is min(3k, 20) with k the number of
\* occurrences of the seven keywords in the text, a keyword counted once per
\* occurrence; the education bucket likewise with its eight keywords and cap 15
C23_Original ==
    a_pc = "done" =>
        LET low == lower(a_text)
        IN  a_score = ScoreWith(low, Occurrences(low, experience_keywords),
                                Occurrences(low, education_keywords))

\* C23 amended: the experience bucket is min(3k, 20) with k the number of the
\* seven keywords that occur in the lower-cased text, a keyword counted once
\* however often it occurs; the education bucket likewise with its eight
\* keywords and cap 15
C23_Amended ==
    a_pc = "done" =>
        LET low == lower(a_text)
        IN  a_score = ScoreWith(low, Present(low, experience_keywords),
                                Present(low, education_keywords))

\* the analysis of a text where a keyword of each bucket stands more than once has
\* ended, with both buckets below their caps
C23_Witness ==
    /\ a_pc = "done"
    /\ a_text = resume_repeat
    /\ Occurrences(lower(a_text), experience_keywords) > Present(lower(a_text), experience_keywords)
    /\ Occurrences(lower(a_text), education_keywords) > Present(lower(a_text), education_keywords)
    /\ 3 * Present(lower(a_text), experience_keywords) < 20
    /\ 3 * Present(lower(a_text), education_keywords) < 15

-----------------------------------------------------------------------------
(* Further claims on the section parsers *)

\* the entries of a list, some field of which contains the words
Holding(entries, field, words) ==
    {i \in DOMAIN entries : Contains(entries[i][field], words)}

\* C24: in the education parser a line with a degree keyword starts a new entry
\* whenever the current entry already holds a degree, and a line with an
\* institution keyword starts a new entry whenever the current entry already
\* holds an institution, so that no degree and no institution once captured is
\* overwritten by a later line: of two degree lines both degrees are returned,
\* and of two institution lines both institutions.
C24_NothingOverwritten ==
    p_pc = "done" =>
        /\ p_text = resume_degrees =>
              /\ Holding(p_result.education, "degree", <<"B","a","c","h","e","l","o","r"," ","o","f"," ","S","c","i","e","n","c","e">>) # {}
              /\ Holding(p_result.education, "degree", <<"M","a","s","t","e","r"," ","o","f"," ","S","c","i","e","n","c","e">>) # {}
        /\ p_text = resume_schools =>
              /\ Holding(p_result.education, "institution", <<"S","t","a","n","f","o","r","d"," ","U","n","i","v","e","r","s","i","t","y">>) # {}
              /\ Holding(p_result.education, "institution", <<"B","o","s","t","o","n"," ","C","o","l","l","e","g","e">>) # {}

\* C29: in the experience parser the description of an entry consists only of
\* lines after the header line of that entry and before the header of the
\* next one, and every line with a date range yields a returned entry that
\* carries that duration.
C29_OwnDescription ==
    p_pc = "done" =>
        /\ p_text = resume_orphan =>
              /\ \A i \in Holding(p_result.experience, "role", <<"D","e","v">>) :
                    ~Contains(p_result.experience[i].description, <<"O","r","p","h","a","n"," ","l","i","n","e">>)
              /\ Holding(p_result.experience, "duration", <<"2","0","1","9"," ","-"," ","2","0","2","0">>) # {}
              /\ Holding(p_result.experience, "duration", <<"2","0","2","0"," ","-"," ","2","0","2","1">>) # {}
        /\ p_text = resume_acme =>
              Holding(p_result.experience, "duration", <<"J","a","n"," ","2","0","2","0">>) # {}

-----------------------------------------------------------------------------
(* Further claims on the composite search *)

\* the records the providers may answer with
ProviderRecords == {a1, a2, a3, g1, g2, g3, g4, z1, z2}

\* the record names no url: none of the keys a parser reads is there with a value
NoUrl(rec) ==
    \A k \in {"url", "job_url", "apply_url", "link", "redirect_url"} :
        k \notin DOMAIN rec \/ rec[k] = <<>>

TitleOf(rec) == FirstStr(rec, <<"title", "job_title", "jobTitle">>, <<"N","/","A">>)

\* the postings of the result that were made from records without a url
UrlLessPostings ==
    {i \in DOMAIN s_result :
        \E rec \in ProviderRecords : NoUrl(rec) /\ s_result[i].title = TitleOf(rec)}

\* the titles of the postings a provider handed over
ReturnedTitles(p) ==
    {s_returned[p].jobs[i].title : i \in DOMAIN s_returned[p].jobs}

-----------------------------------------------------------------------------
(* Claims on the upload *)

\* the ids of the resumes the user has uploaded
ResumesOf(resumes, user) ==
    {resumes[j].id : j \in {k \in DOMAIN resumes : resumes[k].user_id = user}}

\* C25: after any sequence of uploads by one user, get_latest_analysis returns
\* the analysis of the resume that user uploaded last, also when two uploads
\* fall within the same second, and saving an analysis neither changes nor
\* deletes a row that was there before.
C25_LatestAnalysis ==
    [][/\ u_latest' # u_latest /\ ResumesOf(u_resumes', u_latest'.user) # {} =>
             /\ Len(u_latest'.data) = 1
             /\ u_latest'.data[1].resume_id = Greatest(ResumesOf(u_resumes', u_latest'.user))
       /\ \A i \in DOMAIN u_analysis :
             i \in DOMAIN u_analysis' /\ u_analysis'[i] = u_analysis[i]]_vars

\* the file passes the three steps: it has at most 10 MB, its name ends in one of
\* the extensions, and the library reads at least 50 characters from it
Acceptable(file) ==
    /\ file.size <= 10 * 1024 * 1024
    /\ \E ext \in {<<"p","d","f">>, <<"d","o","c","x">>, <<"d","o","c">>} : endswith(lower(file.name), <<".">> \o ext)
    /\ file.content.kind = "text"
    /\ Len(strip(file.content.text)) >= 50

\* C26: in the upload, a failure of the validation of the size, of the
\* validation of the extension or of the extraction of the text (a type that
\* is not supported, an exception, fewer than 50 characters) is reported as
\* False with a message and nothing is raised, and it leaves the tables as they
\* were: a row of resumes or of analysis is written only for a file that
\* passed the three steps.
C26_RejectedUpload ==
    /\ [](u_report # <<>> /\ ~Acceptable(u_file) =>
             /\ ~u_report.raised
             /\ ~u_report.ok
             /\ u_report.message # <<>>
             /\ LET extracted == extract_text(u_file)
                IN  /\ ~extracted.raised
                    /\ ~extracted.value[1] \/ u_file.size > 10 * 1024 * 1024
                    /\ extracted.value[2] # <<>>)
    /\ [][u_file' # <<>> /\ ~Acceptable(u_file') => UNCHANGED <<u_resumes, u_analysis>>]_vars

\* a resume and its analysis are saved, and then a file the library cannot read
\* is turned away
C26_Witness ==
    /\ u_report # <<>>
    /\ ~u_report.ok
    /\ u_file.content.kind = "corrupt"
    /\ Len(u_resumes) >= 1
    /\ Len(u_analysis) >= 1

====
